---- MODULE Spec2Model ----
(***************************************************************************)
(* A model of tf2onnx/onnx_opset/nn.py: the layout converter               *)
(* (spatial_map, conv_convert_inputs), the padding calculator              *)
(* (add_padding) and the rewrite rules built on them.                      *)
(*                                                                         *)
(* Python lists are sequences; a Python index i is the TLA+ index i + 1.   *)
(* The permutation constants keep their 0-based entries.  None is the      *)
(* empty sequence << >> where a list is expected and "" where a string is. *)
(***************************************************************************)
EXTENDS Integers, Sequences, FiniteSets, TLC

VARIABLES
    padNode,    \* add_padding: the node (attributes, shapes) and call arguments
    padPc,      \* add_padding: "init", "done" or the exception raised
    lshape,     \* layout round trip: the original output shape
    lnchw,      \* layout round trip: the shape stored on the converted node's output
    lback,      \* layout round trip: lnchw mapped through the adapter's permutation
    lpc,        \* layout round trip: "init", "nchw", "back"
    bIn,        \* MatrixBandPart: the input tensor and the band (num_lower, num_upper)
    bPc,        \* MatrixBandPart: "init", "loop", "done" or the error raised
    bLoop,      \* MatrixBandPart: the Loop node's state (trip count, iteration,
                \* carried line, scan outputs)
    bOut,       \* MatrixBandPart: the value of the node's output name
    g,          \* the graph being rewritten (ctx)
    pre,        \* the graph as it was when the last rewrite was called
    call,       \* the last rewrite called and its arguments
    reg,        \* dispatch: the versions the node's operator has rules for
    rpc         \* dispatch: "start", "selected", "failed", "done"

padVars == <<padNode, padPc>>
layVars == <<lshape, lnchw, lback, lpc>>
bandVars == <<bIn, bPc, bLoop, bOut>>
graphVars == <<g, pre, call>>
dispVars == <<reg, rpc>>
vars == <<padNode, padPc, lshape, lnchw, lback, lpc, bIn, bPc, bLoop, bOut, g, pre, call,
          reg, rpc>>

-----------------------------------------------------------------------------
(* Bounds of the model. *)

\* largest known spatial input size
MaxIn == 4
\* largest kernel size per axis
MaxK == 2
\* largest stride per axis
MaxS == 2
\* largest dilation per axis
MaxD == 2
\* largest known dimension of a shape in the layout round trip
MaxDim == 3
\* largest number of rows and of columns of a MatrixBandPart input
MaxMat == 4

-----------------------------------------------------------------------------
(* tf2onnx.constants, as nn.py uses them. *)

NHWC_TO_NCHW == <<0, 3, 1, 2>>
NCHW_TO_NHWC == <<0, 2, 3, 1>>
HWCN_TO_NCHW == <<3, 2, 0, 1>>

\* utils.ONNX_UNKNOWN_DIMENSION
UNKNOWN == -1

Max(a, b) == IF a >= b THEN a ELSE b

\* ceil(a / b) for positive b
CeilDiv(a, b) == (a + b - 1) \div b

-----------------------------------------------------------------------------
(* spatial_map *)

\* the loop "for i in perm: new_shape[i] = shape[perm[i]]", from the k-th
\* element of perm on
RECURSIVE spatial_map_loop(_, _, _, _)
spatial_map_loop(new_shape, shape, perm, k) ==
    IF k > Len(perm) THEN new_shape
    ELSE LET i == perm[k]
         IN  spatial_map_loop([new_shape EXCEPT ![i + 1] = shape[perm[i + 1] + 1]],
                              shape, perm, k + 1)

\* the same loop without the copy "new_shape = shape[:]": every read sees the
\* writes made so far
RECURSIVE spatial_map_alias_loop(_, _, _)
spatial_map_alias_loop(shape, perm, k) ==
    IF k > Len(perm) THEN shape
    ELSE LET i == perm[k]
         IN  spatial_map_alias_loop([shape EXCEPT ![i + 1] = shape[perm[i + 1] + 1]],
                                    perm, k + 1)

spatial_map_alias(shape, perm) == spatial_map_alias_loop(shape, perm, 1)

spatial_map(shape, perm) == spatial_map_loop(shape, shape, perm, 1)

-----------------------------------------------------------------------------
(* add_padding *)

\* number of spatial axes (the default of add_padding's parameter)
spatial == 2

\* "if dilations is None: dilations = [1] * spatial * 2"
DefaultDilations == [i \in 1..(spatial * 2) |-> 1]

\* the pad computed for spatial axis i (0-based) before it is split
TotalPad(kernel_shape, strides, dilations, input_shape, output_shape, i) ==
    Max((output_shape[i + 3] - 1) * strides[i + 1]
            + dilations[i + 1] * kernel_shape[i + 1] - input_shape[i + 3],
        0)

\* the loop over the spatial axes filling pads: pads[i] = pad // 2 and
\* pads[i + spatial] = pad - pad // 2
PadsSwapped(kernel_shape, strides, dilations, input_shape, output_shape) ==
    [j \in 1..(spatial * 2) |->
        LET i == (j - 1) % spatial
            pad == TotalPad(kernel_shape, strides, dilations, input_shape, output_shape, i)
        IN  IF j <= spatial THEN pad - pad \div 2 ELSE pad \div 2]

Pads(kernel_shape, strides, dilations, input_shape, output_shape) ==
    [j \in 1..(spatial * 2) |->
        LET i == (j - 1) % spatial
            pad == TotalPad(kernel_shape, strides, dilations, input_shape, output_shape, i)
        IN  IF j <= spatial THEN pad \div 2 ELSE pad - pad \div 2]

\* the "any" of line 146 with "all" in its place
AllUnknown(input_shape, output_shape) ==
    \A i \in 0..(spatial - 1) :
        input_shape[i + 3] = UNKNOWN \/ output_shape[i + 3] = UNKNOWN

\* "any(input_shape[i + 2] == -1 or output_shape[i + 2] == -1 for i in range(spatial))"
AnyUnknown(input_shape, output_shape) ==
    \E i \in 0..(spatial - 1) :
        input_shape[i + 3] = UNKNOWN \/ output_shape[i + 3] = UNKNOWN

\* the any(...) of line 146 raises IndexError: it reads, axis by axis and the
\* input shape first, an entry a shape does not have before it meets an
\* unknown one
any_raises(input_shape, output_shape) ==
    \E i \in 0..(spatial - 1) :
        /\ \A j \in 0..(i - 1) :
              /\ Len(input_shape) >= j + 3 /\ Len(output_shape) >= j + 3
              /\ input_shape[j + 3] # UNKNOWN /\ output_shape[j + 3] # UNKNOWN
        /\ \/ Len(input_shape) < i + 3
           \/ input_shape[i + 3] # UNKNOWN /\ Len(output_shape) < i + 3

\* spatial_map(shape, perm) raises IndexError: "new_shape[i] = shape[perm[i]]"
\* for an axis the shape does not have
spatial_map_raises(shape, perm) == \E k \in 1..Len(perm) : perm[k] + 1 > Len(shape)

\* node.is_nhwc()
is_nhwc(node) == node.data_format = "NHWC"

\* line 163 without the raise: the policy is taken as no padding
unsupported_padding_ignored(node) == [node |-> node, pc |-> "done"]

\* "raise ValueError("invalid padding value: " + padding)"
unsupported_padding(node) == [node |-> node, pc |-> "ValueError"]

\* add_padding(ctx, node, kernel_shape, strides, dilations, spatial): the node
\* after the call and how the call ended
add_padding(node) ==
    IF node.padding = "" THEN [node |-> node, pc |-> "done"]
    ELSE IF node.padding = "SAME" THEN
        IF is_nhwc(node) /\ (\/ spatial_map_raises(node.input_shape, NHWC_TO_NCHW)
                              \/ spatial_map_raises(node.output_shape, NHWC_TO_NCHW))
        THEN [node |-> node, pc |-> "IndexError"]
        ELSE
        LET dilations == IF node.dilations = << >> THEN DefaultDilations
                         ELSE node.dilations
            input_shape == IF is_nhwc(node)
                           THEN spatial_map(node.input_shape, NHWC_TO_NCHW)
                           ELSE node.input_shape
            output_shape == IF is_nhwc(node)
                            THEN spatial_map(node.output_shape, NHWC_TO_NCHW)
                            ELSE node.output_shape
        IN  IF any_raises(input_shape, output_shape)
            THEN [node |-> node, pc |-> "IndexError"]
            ELSE IF AnyUnknown(input_shape, output_shape)
            THEN [node |-> [node EXCEPT !.auto_pad = "SAME_UPPER"], pc |-> "done"]
            ELSE [node |-> [node EXCEPT !.pads = Pads(node.kernel_shape, node.strides,
                                                      dilations, input_shape, output_shape)],
                  pc |-> "done"]
    ELSE IF node.padding = "VALID" THEN [node |-> node, pc |-> "done"]
    ELSE unsupported_padding(node)

\* batch and channel sizes of the shapes the padding model draws
BatchDim == 1
ChannelDim == 3
\* highest rank of the shapes drawn with a rank other than 2 * spatial
MaxRank == 5

\* shapes of a rank from 2 to MaxRank other than 2 * spatial, each dimension
\* unknown or MaxIn; with stride 1 the output of SAME padding has the input's shape
OtherRankShapes ==
    UNION {[1..r -> {UNKNOWN, MaxIn}] : r \in (2..MaxRank) \ {2 * spatial}}

\* a rank-4 shape with the spatial sizes hw, in the node's own layout
ShapeOf(hw, fmt) ==
    IF fmt = "NHWC" THEN <<BatchDim, hw[1], hw[2], ChannelDim>>
    ELSE <<BatchDim, ChannelDim, hw[1], hw[2]>>

\* the spatial sizes the padding model draws: known or unknown
InDims == {UNKNOWN} \cup (1..MaxIn)

\* the output size the source framework records for SAME padding, or unknown
OutDims(in, s) == IF in = UNKNOWN THEN {UNKNOWN} ELSE {UNKNOWN, CeilDiv(in, s)}

PadNodes ==
    {[padding |-> "SAME", data_format |-> fmt,
      kernel_shape |-> k, strides |-> s, dilations |-> d,
      input_shape |-> ShapeOf(in, fmt), output_shape |-> ShapeOf(out, fmt),
      pads |-> << >>, auto_pad |-> ""] :
        fmt \in {"NHWC", "NCHW"},
        k \in [1..spatial -> 1..MaxK],
        s \in [1..spatial -> 1..MaxS],
        d \in {<< >>} \cup [1..spatial -> 1..MaxD],
        in \in [1..spatial -> InDims],
        out \in [1..spatial -> {UNKNOWN} \cup (1..MaxIn)]}

InitPad ==
    /\ reg = {} /\ rpc = "off"
    /\ lshape = << >> /\ lnchw = << >> /\ lback = << >> /\ lpc = "off"
    /\ bIn = << >> /\ bPc = "off" /\ bLoop = << >> /\ bOut = << >>
    /\ g = << >> /\ pre = << >> /\ call = << >>
    /\ padPc = "init"
    /\ padNode \in
          {n \in PadNodes :
              \A i \in 1..spatial : n.output_shape[IF n.data_format = "NHWC" THEN i + 1 ELSE i + 2]
                                      \in OutDims(n.input_shape[IF n.data_format = "NHWC" THEN i + 1 ELSE i + 2],
                                                  n.strides[i])}
          \cup
          {[padding |-> p, data_format |-> fmt,
            kernel_shape |-> <<MaxK, 1>>, strides |-> <<1, MaxS>>, dilations |-> << >>,
            input_shape |-> ShapeOf(<<MaxIn, UNKNOWN>>, fmt),
            output_shape |-> ShapeOf(<<MaxIn, UNKNOWN>>, fmt),
            pads |-> << >>, auto_pad |-> ""] :
              p \in {"", "VALID", "EXPLICIT", "same"}, fmt \in {"NHWC", "NCHW"}}
          \cup
          {[padding |-> "SAME", data_format |-> fmt,
            kernel_shape |-> <<MaxK, 1>>, strides |-> <<1, 1>>, dilations |-> << >>,
            input_shape |-> sh, output_shape |-> sh,
            pads |-> << >>, auto_pad |-> ""] :
              fmt \in {"NHWC", "NCHW"}, sh \in OtherRankShapes}

\* one call of add_padding on the node
AddPadding ==
    /\ padPc = "init"
    /\ LET r == add_padding(padNode)
       IN  /\ padNode' = r.node
           /\ padPc' = r.pc
    /\ UNCHANGED <<layVars, bandVars, graphVars, dispVars>>

(* Claims about add_padding *)

\* the shape in channel-first order, as add_padding reads it
Nchw(node, shape) == IF is_nhwc(node) THEN spatial_map(shape, NHWC_TO_NCHW) ELSE shape

\* the dilation of spatial axis i (0-based) that the calling rule passed
DilationOf(node, i) ==
    IF node.dilations = << >> THEN 1 ELSE node.dilations[i + 1]

\* add_padding wrote numeric pads for SAME padding with every spatial size known
NumericPads ==
    /\ padPc = "done"
    /\ padNode.padding = "SAME"
    /\ padNode.pads # << >>

\* the target operator's output size on one axis
TargetOut(in, pad_before, pad_after, d, k, s) ==
    (in + pad_before + pad_after - d * (k - 1) - 1) \div s + 1

\* C2 (padding equivalence): with SAME padding and the output size
\* ceil(input / stride) recorded on the node, the pads add_padding writes make
\* the target operator's output size equal ceil(input / stride) on every
\* spatial axis, for all positive kernel, stride, dilation and input sizes.
C2_PaddingEquivalence ==
    NumericPads =>
        \A i \in 0..(spatial - 1) :
            LET in == Nchw(padNode, padNode.input_shape)[i + 3]
                s == padNode.strides[i + 1]
            IN  TargetOut(in, padNode.pads[i + 1], padNode.pads[i + 1 + spatial],
                          DilationOf(padNode, i), padNode.kernel_shape[i + 1], s)
                    = CeilDiv(in, s)

\* C3 (total padding): for SAME padding with known spatial sizes the total
\* padding on axis i is max(0, (output[i]-1)*stride[i] + dilation[i]*(kernel[i]-1)
\* + 1 - input[i]), for every dilation >= 1.
C3_TotalPadFormula ==
    NumericPads =>
        \A i \in 0..(spatial - 1) :
            LET in == Nchw(padNode, padNode.input_shape)[i + 3]
                out == Nchw(padNode, padNode.output_shape)[i + 3]
            IN  padNode.pads[i + 1] + padNode.pads[i + 1 + spatial]
                    = Max(0, (out - 1) * padNode.strides[i + 1]
                                + DilationOf(padNode, i) * (padNode.kernel_shape[i + 1] - 1)
                                + 1 - in)

\* C4 (split of the total): pads holds pad_before at index i and pad_after at
\* index i + spatial, with pad_before = total // 2, pad_after = total - pad_before,
\* both non-negative, and pad_after - pad_before in {0, 1}, where total is the
\* total padding add_padding computed for the axis.
C4_PadSplit ==
    NumericPads =>
        /\ Len(padNode.pads) = 2 * spatial
        /\ \A i \in 0..(spatial - 1) :
            LET before == padNode.pads[i + 1]
                after == padNode.pads[i + 1 + spatial]
                total == TotalPad(padNode.kernel_shape, padNode.strides,
                                  [a \in 1..spatial |-> DilationOf(padNode, a - 1)],
                                  Nchw(padNode, padNode.input_shape),
                                  Nchw(padNode, padNode.output_shape), i)
            IN  /\ before >= 0
                /\ after >= 0
                /\ before + after = total
                /\ before = total \div 2
                /\ after = total - before
                /\ after - before \in {0, 1}

\* numeric pads with an odd total on the first axis and an even, positive total
\* on the second
C4_Witness ==
    /\ NumericPads
    /\ padNode.pads[1 + spatial] - padNode.pads[1] = 1
    /\ padNode.pads[2] > 0
    /\ padNode.pads[2 + spatial] = padNode.pads[2]

\* add_padding returned or raised for SAME padding
SamePadded == padPc # "init" /\ padNode.padding = "SAME"

\* C12 (rank mismatch): when add_padding handles SAME padding on a node whose
\* input shape has a rank other than 2 * spatial, the call ends with an error
\* and writes neither pads nor auto_pad.
C12_RankMismatchAbort ==
    (SamePadded /\ Len(padNode.input_shape) # 2 * spatial) =>
        /\ padPc # "done"
        /\ padNode.pads = << >>
        /\ padNode.auto_pad = ""

\* C14 (unsupported padding policy): when the padding attribute is a string
\* other than SAME and VALID, add_padding ends with an error and writes
\* neither pads nor auto_pad.
C14_UnsupportedPadding ==
    (padPc # "init" /\ padNode.padding \notin {"", "SAME", "VALID"}) =>
        /\ padPc = "ValueError"
        /\ padNode.pads = << >>
        /\ padNode.auto_pad = ""

\* the policy string differs from SAME only in its case, and the call raised
C14_Witness ==
    /\ padPc = "ValueError"
    /\ padNode.padding = "same"
    /\ padNode.input_shape[2] = MaxIn

\* some spatial dimension of the rank-4 input or output shape, read in
\* channel-first order, is unknown
SomeSpatialUnknown ==
    \E k \in 3..4 :
        \/ Nchw(padNode, padNode.input_shape)[k] = UNKNOWN
        \/ Nchw(padNode, padNode.output_shape)[k] = UNKNOWN

\* C17 (all-or-nothing symbolic padding): for SAME padding on rank-4 shapes
\* add_padding writes exactly one of the two attributes: auto_pad =
\* SAME_UPPER and no pads when any spatial dimension of the input or output
\* shape is unknown, even if others are known; otherwise pads with an entry
\* for both ends of every spatial axis, computed from known sizes, and no
\* auto_pad.
C17_AllOrNothing ==
    (SamePadded /\ Len(padNode.input_shape) = 2 * spatial
                /\ Len(padNode.output_shape) = 2 * spatial) =>
        /\ padPc = "done"
        /\ IF SomeSpatialUnknown
           THEN padNode.auto_pad = "SAME_UPPER" /\ padNode.pads = << >>
           ELSE /\ padNode.auto_pad = ""
                /\ Len(padNode.pads) = 2 * spatial
                /\ \A j \in 1..(2 * spatial) : padNode.pads[j] >= 0

\* the height is known on input and output, the width unknown: the symbolic
\* marker was written and no pads
C17_Witness ==
    /\ SamePadded /\ padPc = "done"
    /\ Len(padNode.input_shape) = 2 * spatial
    /\ Nchw(padNode, padNode.input_shape)[3] # UNKNOWN
    /\ Nchw(padNode, padNode.output_shape)[3] # UNKNOWN
    /\ Nchw(padNode, padNode.input_shape)[4] = UNKNOWN
    /\ padNode.auto_pad = "SAME_UPPER"
    /\ padNode.pads = << >>

-----------------------------------------------------------------------------
(* The layout round trip of an output shape: conv_convert_inputs stores     *)
(* spatial_map(output_shape, NHWC_TO_NCHW) on the node's output, and the    *)
(* output adapter carries NCHW_TO_NHWC.                                     *)

ShapeDims == {UNKNOWN} \cup (1..MaxDim)

InitLayout ==
    /\ reg = {} /\ rpc = "off"
    /\ padNode = << >> /\ padPc = "off"
    /\ bIn = << >> /\ bPc = "off" /\ bLoop = << >> /\ bOut = << >>
    /\ g = << >> /\ pre = << >> /\ call = << >>
    /\ lshape \in [1..4 -> ShapeDims]
    /\ lnchw = << >>
    /\ lback = << >>
    /\ lpc = "init"

\* ctx.set_shape(output_name, spatial_map(output_shape, constants.NHWC_TO_NCHW))
StoreNCHW ==
    /\ lpc = "init"
    /\ lnchw' = spatial_map(lshape, NHWC_TO_NCHW)
    /\ lpc' = "nchw"
    /\ UNCHANGED <<lshape, lback>>
    /\ UNCHANGED <<padVars, bandVars, graphVars, dispVars>>

\* the stored shape seen through the adapter's perm
MapBack ==
    /\ lpc = "nchw"
    /\ lback' = spatial_map(lnchw, NCHW_TO_NHWC)
    /\ lpc' = "back"
    /\ UNCHANGED <<lshape, lnchw>>
    /\ UNCHANGED <<padVars, bandVars, graphVars, dispVars>>

NextLayout == StoreNCHW \/ MapBack

(* Claim about the layout round trip *)

\* C5 (layout round trip): for every rank-4 shape s, unknown dimensions
\* included, spatial_map(spatial_map(s, NHWC_TO_NCHW), NCHW_TO_NHWC) = s.
C5_LayoutRoundTrip ==
    lpc = "back" => lback = lshape

\* a shape with four different entries, one of them unknown, went there and back
C5_Witness ==
    /\ lpc = "back"
    /\ lshape = <<UNKNOWN, 1, 2, 3>>
    /\ lnchw = <<UNKNOWN, 3, 1, 2>>

-----------------------------------------------------------------------------
(* MatrixBandPart.version_7: the nodes the rule creates, evaluated.  A      *)
(* rank-2 tensor is a sequence of rows, a rank-3 tensor a sequence of       *)
(* rank-2 tensors; bool is BOOLEAN.                                        *)

\* Gather(data, indices, axis) on a rank-2 tensor with rank-1 indices
Gather(data, indices, axis) ==
    IF axis = 0 THEN [k \in 1..Len(indices) |-> data[indices[k] + 1]]
    ELSE [i \in 1..Len(data) |-> [k \in 1..Len(indices) |-> data[i][indices[k] + 1]]]

\* Cast(to=BOOL) on a rank-2 tensor
CastBool(x) == [i \in 1..Len(x) |-> [j \in 1..Len(x[i]) |-> x[i][j] # 0]]

\* Cast from bool to a numeric type on a rank-2 tensor
CastNum(x) == [i \in 1..Len(x) |-> [j \in 1..Len(x[i]) |-> IF x[i][j] THEN 1 ELSE 0]]

Xor(a, b) == [i \in 1..Len(a) |-> [j \in 1..Len(a[i]) |-> a[i][j] # b[i][j]]]

Not(a) == [i \in 1..Len(a) |-> [j \in 1..Len(a[i]) |-> ~a[i][j]]]

\* Concat of two rank-2 tensors on an axis
Concat(a, b, axis) ==
    IF axis = 0 THEN a \o b
    ELSE [i \in 1..Len(a) |-> a[i] \o b[i]]

\* Slice(data, axes=[axis], starts=[0], ends=[-1]): all but the last along axis
SliceButLast(data, axis) ==
    IF axis = 0 THEN SubSeq(data, 1, Len(data) - 1)
    ELSE [i \in 1..Len(data) |-> SubSeq(data[i], 1, Len(data[i]) - 1)]

\* Squeeze(axes=[axis]) on a rank-3 tensor, axis 1 or 2
Squeeze(x, axis) ==
    IF axis = 1 THEN [t \in 1..Len(x) |-> x[t][1]]
    ELSE [t \in 1..Len(x) |-> [i \in 1..Len(x[t]) |-> x[t][i][1]]]

\* Transpose without perm on a rank-2 tensor: the axes reversed
Transpose2(x) == [j \in 1..Len(x[1]) |-> [i \in 1..Len(x) |-> x[i][j]]]

\* Mul of two rank-2 tensors of one shape
Mul(a, b) == [i \in 1..Len(a) |-> [j \in 1..Len(a[i]) |-> a[i][j] * b[i][j]]]

\* Shape of a rank-2 tensor
Shape2(x) == <<Len(x), Len(x[1])>>

\* "axis, counter_axis, squeeze_axis = (1, 0, 2) if bandpart == [-1, 0] else (0, 1, 1)"
BandAxes(bandpart) ==
    IF bandpart = <<-1, 0>> THEN [axis |-> 1, counter_axis |-> 0, squeeze_axis |-> 2]
    ELSE [axis |-> 0, counter_axis |-> 1, squeeze_axis |-> 1]

\* np.array([0]).astype(np.int32)
const_zero == <<0>>

\* np.array([[0]]).astype(np.bool)
const_zero_bool == <<<<FALSE>>>>

\* a mask line taken from the input instead of generated: one_line without the
\* Xor and Not nodes
one_line_from_input(input, axis) == CastBool(Gather(input, const_zero, axis))

\* the nodes before the loop: first_col_or_row, its cast, zero_line, one_line
one_line(input, axis) ==
    LET first_col_or_row == Gather(input, const_zero, axis)
        first_col_or_row_casted == CastBool(first_col_or_row)
        zero_line == Xor(first_col_or_row_casted, first_col_or_row_casted)
    IN  Not(zero_line)

\* the body graph's line_out without the Concat and the Slice: the line as it is
line_out_unshifted(line, counter_axis) == line

\* the body graph's line_out: Concat of const_zero_bool and line on
\* counter_axis, then Slice
line_out(line, counter_axis) ==
    SliceButLast(Concat(const_zero_bool, line, counter_axis), counter_axis)

\* trip_cnt: Gather(Shape(input), line_num_index)
trip_cnt(input, axis) == Shape2(input)[axis + 1]

\* the nodes after the loop: Squeeze, Cast, Transpose (lower band only), Cast, Mul
band_output(scan, input, axes) ==
    LET squeeze == Squeeze(scan, axes.squeeze_axis)
        mask_matrix == IF axes.axis = 1 THEN Transpose2(CastNum(squeeze))
                       ELSE CastNum(squeeze)
    IN  Mul(mask_matrix, input)

\* the inputs the model draws: R x C matrices whose first column is any
\* pattern of zero and non-zero entries, the other entries a pattern of
\* negative, zero and positive values
BandMatrix(R, C, col, seed) ==
    [i \in 1..R |-> [j \in 1..C |->
        IF j = 1 THEN col[i] ELSE ((i + 2 * j + seed) % 3) - 1]]

InitBand ==
    /\ reg = {} /\ rpc = "off"
    /\ bPc = "init"
    /\ \E R \in 1..MaxMat, C \in 1..MaxMat :
         \E col \in [1..R -> {0, 2}], seed \in 0..2, band \in {<<-1, 0>>, <<0, -1>>} :
            bIn = [input |-> BandMatrix(R, C, col, seed), bandpart |-> band]
    /\ bLoop = << >>
    /\ bOut = << >>
    /\ padNode = << >> /\ padPc = "off"
    /\ lshape = << >> /\ lnchw = << >> /\ lback = << >> /\ lpc = "off"
    /\ g = << >> /\ pre = << >> /\ call = << >>

\* the Loop node starts: trip count, condition and the initial carried line
BandLoopStart ==
    /\ bPc = "init"
    /\ LET axes == BandAxes(bIn.bandpart)
       IN  bLoop' = [trip_cnt |-> trip_cnt(bIn.input, axes.axis), trip |-> 0, cond |-> TRUE,
                     line |-> one_line(bIn.input, axes.axis), scan |-> << >>]
    /\ bPc' = "loop"
    /\ UNCHANGED <<bIn, bOut>>
    /\ UNCHANGED <<padVars, layVars, graphVars, dispVars>>

\* one iteration of the body graph: res = line, line_out, cond_out = cond
BandLoopBody ==
    /\ bPc = "loop"
    /\ bLoop.trip < bLoop.trip_cnt
    /\ bLoop.cond
    /\ bLoop' = [bLoop EXCEPT !.trip = @ + 1,
                              !.line = line_out(bLoop.line, BandAxes(bIn.bandpart).counter_axis),
                              !.scan = Append(@, bLoop.line)]
    /\ UNCHANGED <<bIn, bPc, bOut>>
    /\ UNCHANGED <<padVars, layVars, graphVars, dispVars>>

\* the loop is over: the nodes after it produce the original output name
BandLoopEnd ==
    /\ bPc = "loop"
    /\ bLoop.trip = bLoop.trip_cnt
    /\ bOut' = band_output(bLoop.scan, bIn.input, BandAxes(bIn.bandpart))
    /\ bPc' = "done"
    /\ UNCHANGED <<bIn, bLoop>>
    /\ UNCHANGED <<padVars, layVars, graphVars, dispVars>>

NextBand == BandLoopStart \/ BandLoopBody \/ BandLoopEnd

(* Claims about MatrixBandPart *)

\* C8 (lower-triangular mask): for num_lower = -1, num_upper = 0 the nodes
\* yield out[i][j] = input[i][j] when j <= i and 0 when j > i, and the
\* initial carried line is all true whatever the input values are.
C8_LowerTriangular ==
    bIn.bandpart = <<-1, 0>> =>
        /\ (bPc = "loop" /\ bLoop.trip = 0) =>
              /\ Len(bLoop.line) = Len(bIn.input)
              /\ \A i \in 1..Len(bLoop.line) : bLoop.line[i] = <<TRUE>>
        /\ bPc = "done" =>
              /\ Shape2(bOut) = Shape2(bIn.input)
              /\ \A i \in 1..Len(bIn.input) : \A j \in 1..Len(bIn.input[i]) :
                    bOut[i][j] = IF j <= i THEN bIn.input[i][j] ELSE 0

\* a 4x4 input with a zero in its first column and non-zero entries above the
\* diagonal went through the nodes
C8_Witness ==
    /\ bPc = "done"
    /\ bIn.bandpart = <<-1, 0>>
    /\ Shape2(bIn.input) = <<4, 4>>
    /\ bIn.input[2][1] = 0
    /\ bIn.input[1][1] # 0
    /\ bIn.input[1][2] # 0
    /\ bIn.input[3][4] # 0
    /\ bOut[3][4] = 0
    /\ bOut[4][3] = bIn.input[4][3]
    /\ bOut[4][3] # 0

-----------------------------------------------------------------------------
(* Tensors: a constant's value is [shape, data], data a function of the     *)
(* 0-based index tuples.                                                    *)

Range(f) == {f[x] : x \in DOMAIN f}

RECURSIVE SeqMax(_)
SeqMax(sq) == IF sq = << >> THEN 0 ELSE Max(Head(sq), SeqMax(Tail(sq)))

\* the index tuples of a tensor of the given shape
Indices(shape) ==
    {ix \in [1..Len(shape) -> 0..(SeqMax(shape) - 1)] :
        \A k \in 1..Len(shape) : ix[k] < shape[k]}

\* a tensor of the given shape whose entries are all different
RECURSIVE Digits(_)
Digits(ix) == IF ix = << >> THEN 0 ELSE 10 * Digits(SubSeq(ix, 1, Len(ix) - 1)) + ix[Len(ix)] + 1

Iota(shape) == [shape |-> shape, data |-> [ix \in Indices(shape) |-> Digits(ix)]]

\* numpy's val.transpose(perm): axis i of the result is axis perm[i] of val
np_transpose(val, perm) ==
    LET new_shape == [i \in 1..Len(perm) |-> val.shape[perm[i] + 1]]
        src(ix) == [k \in 1..Len(perm) |-> ix[CHOOSE i \in 1..Len(perm) : perm[i] + 1 = k]]
    IN  [shape |-> new_shape, data |-> [ix \in Indices(new_shape) |-> val.data[src(ix)]]]

\* the target format's Transpose operator evaluated on a tensor: the output
\* entry at ix is the input entry whose index, read through perm, is ix
OnnxTranspose(t, perm) ==
    LET out_shape == [i \in 1..Len(perm) |-> t.shape[perm[i] + 1]]
    IN  [shape |-> out_shape,
         data |-> [ix \in Indices(out_shape) |->
                     t.data[CHOOSE s \in DOMAIN t.data :
                                \A i \in 1..Len(perm) : s[perm[i] + 1] = ix[i]]]]

\* np.resize(a, new_shape) for rank-1 a and new_shape: a repeated to the new
\* length (zeros when a is empty)
np_resize(a, new_shape) ==
    [shape |-> new_shape,
     data |-> [ix \in Indices(new_shape) |->
                 IF a.shape[1] = 0 THEN 0 ELSE a.data[<<ix[1] % a.shape[1]>>]]]

-----------------------------------------------------------------------------
(* The graph IR (tf2onnx.graph), as the rewrite rules of nn.py use it.      *)
(* A graph is [nodes, shape, dtype, value, uid, opset, err]: nodes maps a   *)
(* node name to [type, input, output, data_format, skip_conversion, attr],  *)
(* shape and dtype map an output name to its shape (<< >> is None) and      *)
(* element type, value maps a constant's name to its tensor, uid is the     *)
(* counter behind utils.make_name, err the exception that ended the rewrite *)
(* ("" for none).                                                           *)

NewNode(type, input, output, attr) ==
    [type |-> type, input |-> input, output |-> output, data_format |-> "",
     skip_conversion |-> FALSE, attr |-> attr]

Raise(G, e) == [G EXCEPT !.err = e]

\* utils.make_name(name)
make_name(G, name) == name \o "__" \o ToString(G.uid + 1)

\* utils.port_name(name)
port_name(name) == name \o ":0"

\* ctx.get_shape(name)
get_shape(G, name) == IF name \in DOMAIN G.shape THEN G.shape[name] ELSE << >>

\* ctx.set_shape(name, shape)
set_shape(G, name, shape) == [G EXCEPT !.shape = (name :> shape) @@ @]

\* ctx.get_dtype(name)
get_dtype(G, name) == IF name \in DOMAIN G.dtype THEN G.dtype[name] ELSE ""

\* ctx.set_dtype(name, dtype)
set_dtype(G, name, dtype) == [G EXCEPT !.dtype = (name :> dtype) @@ @]

\* node.set_attr(name, value)
set_attr(G, node, name, value) == [G EXCEPT !.nodes[node].attr = (name :> value) @@ @]

\* the names some node of the graph produces
Produced(G) == UNION {Range(G.nodes[n].output) : n \in DOMAIN G.nodes}

\* node.inputs[idx]: the node producing the name
producer(G, name) == CHOOSE n \in DOMAIN G.nodes : name \in Range(G.nodes[n].output)

\* node.is_const()
is_const(G, node) == G.nodes[node].type = "Const"

\* ctx.find_output_consumers(output_name)
find_output_consumers(G, output_name) ==
    {n \in DOMAIN G.nodes : output_name \in Range(G.nodes[n].input)}

\* utils.make_name consumed one name: the counter moves on
take_name(G) == IF G.err # "" THEN G ELSE [G EXCEPT !.uid = @ + 1]

\* ctx.make_node(op_type, inputs, attr, name, outputs): the graph with the node
make_node(G, op_type, inputs, attr, name, outputs) ==
    IF G.err # "" THEN G
    ELSE IF Range(outputs) \cap Produced(G) # {} \/ name \in DOMAIN G.nodes
    THEN Raise(G, "DuplicateNameError")
    ELSE [G EXCEPT !.nodes = (name :> NewNode(op_type, inputs, outputs, attr)) @@ @]

\* ctx.make_const(name, np_val): the constant's output carries its name
make_const(G, name, np_val) ==
    IF G.err # "" THEN G
    ELSE IF name \in Produced(G) \/ name \in DOMAIN G.nodes
    THEN Raise(G, "DuplicateNameError")
    ELSE [G EXCEPT !.nodes = (name :> NewNode("Const", << >>, <<name>>, << >>)) @@ @,
                   !.value = (name :> np_val) @@ @,
                   !.shape = (name :> np_val.shape) @@ @]

\* ctx.replace_input(node, old_input, new_input)
replace_input(G, node, old_input, new_input) ==
    IF G.err # "" THEN G
    ELSE IF old_input \notin Range(G.nodes[node].input) THEN Raise(G, "InputNotFoundError")
    ELSE LET k == CHOOSE i \in DOMAIN G.nodes[node].input :
                      /\ G.nodes[node].input[i] = old_input
                      /\ \A j \in 1..(i - 1) : G.nodes[node].input[j] # old_input
         IN  [G EXCEPT !.nodes[node].input[k] = new_input]

\* ctx.insert_new_node_on_input(node, op_type, input_name): a new
\* single-input single-output node, named make_name(G, node), between the
\* producer of input_name and node
insert_new_node_on_input(G, node, op_type, input_name) ==
    replace_input(make_node(take_name(G), op_type, <<input_name>>, << >>,
                            make_name(G, node), <<port_name(make_name(G, node))>>),
                  node, input_name, port_name(make_name(G, node)))

\* the readers of old_name read new_name
Rewire(G, readers, old_name, new_name) ==
    IF G.err # "" THEN G
    ELSE [G EXCEPT !.nodes =
            [n \in DOMAIN @ |->
                IF n \in readers
                THEN [@[n] EXCEPT !.input = [i \in DOMAIN @ |->
                                               IF @[i] = old_name THEN new_name ELSE @[i]]]
                ELSE @[n]]]

\* ctx.insert_new_node_on_output(op_type, output_name, name): a new node
\* reading output_name; every node that read output_name reads the new node.
\* The producer keeps output_name (conv_convert_inputs sets the shape of
\* output_name as "current ONNX conv node output" after the call).
insert_new_node_on_output(G, op_type, output_name, name) ==
    Rewire(make_node(G, op_type, <<output_name>>, << >>, name, <<port_name(name)>>),
           find_output_consumers(G, output_name), output_name, port_name(name))

\* ctx.remove_node(name)
remove_node(G, name) ==
    IF G.err # "" THEN G
    ELSE IF \E o \in Range(G.nodes[name].output) : find_output_consumers(G, o) \ {name} # {}
    THEN Raise(G, "DanglingConsumerError")
    ELSE [G EXCEPT !.nodes = [n \in (DOMAIN @) \ {name} |-> @[n]]]

-----------------------------------------------------------------------------
(* conv_convert_inputs *)

\* the permutation folded into a constant data input (line 61) and into a
\* constant kernel (line 82)
InputFoldPerm == NHWC_TO_NCHW
\* the data input's permutation in the kernel's place
KernelFoldPermOfInput == NHWC_TO_NCHW
KernelFoldPerm == HWCN_TO_NCHW

\* the perm attribute of the Transpose spliced on a data input (line 66), on
\* the kernel (line 89) and on an output (line 119)
InputAdapterPerm == NHWC_TO_NCHW
KernelAdapterPerm == HWCN_TO_NCHW
OutputAdapterPerm == NCHW_TO_NHWC

\* "transpose.set_attr("perm", ...); transpose.skip_conversion = True"
set_perm(G, transpose, perm) ==
    [set_attr(G, transpose, "perm", perm) EXCEPT !.nodes[transpose].skip_conversion = TRUE]

\* "node.inputs[idx].is_const() and len(ctx.find_output_consumers(node.input[1])) == 1",
\* evaluated where node has a second input
FoldInput(G, node, idx) ==
    /\ is_const(G, producer(G, G.nodes[node].input[idx + 1]))
    /\ Cardinality(find_output_consumers(G, G.nodes[node].input[2])) = 1

\* lines 66-71: the spliced Transpose gets its perm and, when the input's shape
\* is known, its output shape
input_adapter(G, transpose, shape) ==
    IF G.err # "" THEN G
    ELSE IF shape = << >> THEN set_perm(G, transpose, InputAdapterPerm)
    ELSE set_shape(set_perm(G, transpose, InputAdapterPerm), port_name(transpose),
                   spatial_map(shape, NHWC_TO_NCHW))

\* lines 57-71: one designated data input of a channel-last node
convert_input(G, node, idx) ==
    LET input_name == G.nodes[node].input[idx + 1]
        parent == producer(G, input_name)
    IN  IF is_const(G, parent) /\ Len(G.nodes[node].input) < 2 THEN Raise(G, "IndexError")
        ELSE IF FoldInput(G, node, idx)
        THEN [G EXCEPT !.value[parent] = np_transpose(@, InputFoldPerm)]
        ELSE input_adapter(insert_new_node_on_input(G, node, "Transpose", input_name),
                           make_name(G, node), get_shape(G, input_name))

\* lines 56-71: "if node.is_nhwc(): for idx in input_indices", from the k-th
\* element of input_indices on
RECURSIVE convert_inputs(_, _, _, _)
convert_inputs(G, node, input_indices, k) ==
    IF G.err # "" \/ ~is_nhwc(G.nodes[node]) \/ k > Len(input_indices) THEN G
    ELSE convert_inputs(convert_input(G, node, input_indices[k]), node, input_indices, k + 1)

\* "len(consumers) == 1" for a constant kernel (lines 77-84)
FoldKernel(G, node) ==
    /\ is_const(G, producer(G, G.nodes[node].input[2]))
    /\ Cardinality(find_output_consumers(G, G.nodes[node].input[2])) = 1

\* lines 89-92: the spliced Transpose gets its perm and its output shape
kernel_adapter(G, transpose, shape) ==
    IF G.err # "" THEN G
    ELSE IF shape = << >> THEN Raise(set_perm(G, transpose, KernelAdapterPerm), "TypeError")
    ELSE set_shape(set_perm(G, transpose, KernelAdapterPerm), port_name(transpose),
                   spatial_map(shape, HWCN_TO_NCHW))

\* lines 74-92: the kernel is transposed
convert_kernel(G, node) ==
    IF G.err # "" THEN G
    ELSE IF Len(G.nodes[node].input) < 2 THEN Raise(G, "IndexError")
    ELSE IF FoldKernel(G, node)
    THEN [G EXCEPT !.value[producer(G, G.nodes[node].input[2])] =
                        np_transpose(@, KernelFoldPerm)]
    ELSE kernel_adapter(insert_new_node_on_input(G, node, "Transpose", G.nodes[node].input[2]),
                        make_name(G, node), get_shape(G, G.nodes[node].input[2]))

\* lines 99-101 and 108-110: the Reshape is marked and gets its output shape
reshape_adapter(G, reshape, attrs, new_kernel_shape) ==
    IF G.err # "" THEN G
    ELSE set_shape([G EXCEPT !.nodes[reshape].attr = attrs @@ @,
                             !.nodes[reshape].skip_conversion = TRUE],
                   port_name(reshape), new_kernel_shape)

\* the rank-1 constant holding a shape (line 104)
shape_const(new_kernel_shape) ==
    [shape |-> <<Len(new_kernel_shape)>>,
     data |-> [ix \in Indices(<<Len(new_kernel_shape)>>) |-> new_kernel_shape[ix[1] + 1]]]

\* lines 103-107: the shape constant, the Reshape reading the kernel and it,
\* and the node reading the Reshape
reshape_since_5(G, node, input_name, shape_name, reshape, new_kernel_shape) ==
    replace_input(make_node(take_name(make_const(take_name(G), shape_name,
                                                 shape_const(new_kernel_shape))),
                            "Reshape", <<input_name, shape_name>>, << >>,
                            reshape, <<port_name(reshape)>>),
                  node, input_name, port_name(reshape))

\* lines 95-110: the kernel is reshaped (new_kernel_shape << >> is None)
reshape_kernel(G, node, new_kernel_shape) ==
    IF G.err # "" \/ new_kernel_shape = << >> THEN G
    ELSE IF G.opset < 5
    THEN reshape_adapter(insert_new_node_on_input(G, node, "Reshape", G.nodes[node].input[2]),
                         make_name(G, node), "shape" :> new_kernel_shape, new_kernel_shape)
    ELSE reshape_adapter(reshape_since_5(G, node, G.nodes[node].input[2], make_name(G, node),
                                         make_name(take_name(G), "Reshape"),
                                         new_kernel_shape),
                         make_name(take_name(G), "Reshape"), << >>, new_kernel_shape)

\* lines 74-110: "if with_kernel:"
convert_with_kernel(G, node, with_kernel, new_kernel_shape) ==
    IF G.err # "" \/ ~with_kernel THEN G
    ELSE reshape_kernel(convert_kernel(G, node), node, new_kernel_shape)

\* lines 119-124: the Transpose behind the output gets its perm and the
\* output's shape, the output the shape mapped to channel-first
output_adapter(G, transpose, output_name, output_shape) ==
    IF G.err # "" THEN G
    ELSE IF output_shape = << >>
    THEN Raise(set_shape(set_perm(G, transpose, OutputAdapterPerm),
                         port_name(transpose), output_shape), "TypeError")
    ELSE set_shape(set_shape(set_perm(G, transpose, OutputAdapterPerm),
                             port_name(transpose), output_shape),
                   output_name, spatial_map(output_shape, NHWC_TO_NCHW))

\* lines 115-124: one designated output of a channel-last node
convert_output(G, node, idx) ==
    IF idx + 1 > Len(G.nodes[node].output) THEN Raise(G, "IndexError")
    ELSE output_adapter(insert_new_node_on_output(take_name(G), "Transpose",
                                                  G.nodes[node].output[idx + 1],
                                                  make_name(G, node)),
                        make_name(G, node), G.nodes[node].output[idx + 1],
                        get_shape(G, G.nodes[node].output[idx + 1]))

\* lines 113-124: "if node.is_nhwc(): for idx in output_indices", from the
\* k-th element of output_indices on
RECURSIVE convert_outputs(_, _, _, _)
convert_outputs(G, node, output_indices, k) ==
    IF G.err # "" \/ ~is_nhwc(G.nodes[node]) \/ k > Len(output_indices) THEN G
    ELSE convert_outputs(convert_output(G, node, output_indices[k]), node, output_indices, k + 1)

\* line 125 writing the other layout than the node's
set_other_layout(G, node) ==
    IF G.err # "" THEN G
    ELSE [G EXCEPT !.nodes[node].data_format = IF @ = "NHWC" THEN "NCHW" ELSE "NHWC"]

\* line 125: the node is channel-first from here on
set_nchw(G, node) ==
    IF G.err # "" \/ ~is_nhwc(G.nodes[node]) THEN G
    ELSE [G EXCEPT !.nodes[node].data_format = "NCHW"]

\* conv_convert_inputs(ctx, node, with_kernel, new_kernel_shape, input_indices,
\* output_indices): the graph after the call
conv_convert_inputs(G, node, with_kernel, new_kernel_shape, input_indices, output_indices) ==
    set_nchw(convert_outputs(convert_with_kernel(convert_inputs(G, node, input_indices, 1),
                                                 node, with_kernel, new_kernel_shape),
                             node, output_indices, 1),
             node)

-----------------------------------------------------------------------------
(* BatchNorm.version_6 (version_9 calls it) *)

\* "consumers = [ctx.find_output_consumers(output_name) for output_name in
\* node.output[1:]]; if not any(consumers): node.output = [node.output[0]]",
\* checking node.output[1:2] only
prune_outputs_first_aux(G, node) ==
    LET output == G.nodes[node].output
    IN  IF \E k \in 2..Len(output) : k = 2 /\ find_output_consumers(G, output[k]) # {}
        THEN G
        ELSE [G EXCEPT !.nodes[node].output = <<output[1]>>]

\* lines 436-439: detach unused outputs
prune_outputs(G, node) ==
    LET output == G.nodes[node].output
    IN  IF \E k \in 2..Len(output) : find_output_consumers(G, output[k]) # {}
        THEN G
        ELSE [G EXCEPT !.nodes[node].output = <<output[1]>>]

\* "node.input[idx] = new_..._node_name"
set_input(G, node, idx, name) ==
    IF G.err # "" THEN G ELSE [G EXCEPT !.nodes[node].input[idx + 1] = name]

\* lines 448-453 and 455-460: the constant at input idx (0-based) is replaced
\* by one resized to scale_shape when its shape differs
resize_stat(G, node, idx) ==
    IF G.err # "" THEN G
    ELSE LET scale_shape == get_shape(G, G.nodes[node].input[2])
             stat_name == G.nodes[node].input[idx + 1]
         IN  IF get_shape(G, stat_name) = scale_shape THEN G
             ELSE IF ~is_const(G, producer(G, stat_name)) THEN Raise(G, "ValueError")
             ELSE IF scale_shape = << >> THEN Raise(G, "TypeError")
             ELSE set_input(make_const(take_name(G), make_name(G, node),
                                       np_resize(G.value[producer(G, stat_name)],
                                                 scale_shape)),
                            node, idx, make_name(G, node))

\* BatchNorm.version_6(ctx, node)
BatchNorm_version_6(G, node) ==
    resize_stat(resize_stat(conv_convert_inputs(
                                prune_outputs([G EXCEPT !.nodes[node].type =
                                                            "BatchNormalization"], node),
                                node, FALSE, << >>, <<0>>, <<0>>),
                            node, 3),
                node, 4)

-----------------------------------------------------------------------------
(* The graphs conv_convert_inputs is called on: a node "n" of one of the    *)
(* operator types whose rules call it, the producers of its inputs, other   *)
(* readers of those producers, and readers of its outputs.                  *)

\* most readers a producer has besides the node
MaxSib == 1

\* shapes of the data input (and of the outputs) and of the kernel
XShape == <<1, 2, 3, 4>>
WShape == <<2, 1, 4, 3>>

ConvTypes == {"Conv2D", "DepthwiseConv2dNative", "MaxPool", "MaxPoolWithArgmax"}
BatchNormTypes == {"FusedBatchNorm", "BatchNormalization"}

\* inputs and outputs of a node of the type when conv_convert_inputs runs
NumInputs(type) ==
    IF type \in {"Conv2D", "DepthwiseConv2dNative"} THEN 2
    ELSE IF type \in BatchNormTypes THEN 5 ELSE 1

NumOutputs(type) ==
    IF type = "MaxPoolWithArgmax" THEN 2 ELSE IF type \in BatchNormTypes THEN 3 ELSE 1

\* the arguments the rule of the node's type passes to conv_convert_inputs
CallArgs(nd) ==
    [with_kernel |-> nd.type \in {"Conv2D", "DepthwiseConv2dNative"},
     new_kernel_shape |-> IF nd.type = "DepthwiseConv2dNative"
                          THEN <<(IF is_nhwc(nd) THEN XShape[4] ELSE XShape[2]) * WShape[4],
                                 1, WShape[1], WShape[2]>>
                          ELSE << >>,
     input_indices |-> <<0>>,
     output_indices |-> IF nd.type = "MaxPoolWithArgmax" THEN <<0, 1>> ELSE <<0>>]

\* a producer node with one output
Producer(name, type) == name :> NewNode(type, << >>, <<port_name(name)>>, << >>)

\* k readers of an output, named base1 .. basek
Readers(base, k, output_name) ==
    [nm \in {base \o ToString(i) : i \in 1..k} |->
        NewNode("Identity", <<output_name>>, <<port_name(nm)>>, << >>)]

\* the graph for the parameters p
ConvGraph(p) ==
    LET nin == NumInputs(p.type)
        nout == NumOutputs(p.type)
        bn == p.type \in BatchNormTypes
        wshape == IF bn THEN <<XShape[4]>> ELSE WShape
        input == IF nin = 1 THEN <<"x:0">>
                 ELSE IF nin = 2 THEN <<"x:0", "w:0">>
                 ELSE <<"x:0", "w:0", "b:0", "m:0", "v:0">>
        output == [k \in 1..nout |-> "n:" \o ToString(k - 1)]
        stats == IF bn THEN Producer("b", "Const") @@ Producer("m", "Const")
                            @@ Producer("v", "Const")
                 ELSE << >>
        n == "n" :> [NewNode(p.type, input, output, << >>) EXCEPT !.data_format = p.fmt]
        out_readers == [nm \in {"c" \o ToString(k) : k \in p.read} |->
                            NewNode("Identity",
                                    <<output[CHOOSE k \in p.read : nm = "c" \o ToString(k)]>>,
                                    <<port_name(nm)>>, << >>)]
        mshape == IF p.mean_full THEN wshape ELSE <<0>>
        vshape == IF p.var_full THEN wshape ELSE <<0>>
    IN  [nodes |-> Producer("x", p.x) @@ Readers("sx", p.xsib, "x:0")
                   @@ (IF nin >= 2 THEN Producer("w", p.w) @@ Readers("sw", p.wsib, "w:0")
                       ELSE << >>)
                   @@ stats @@ n @@ out_readers,
         shape |-> (IF p.xshape THEN "x:0" :> XShape ELSE << >>)
                   @@ (IF nin >= 2 /\ p.wshape THEN "w:0" :> wshape ELSE << >>)
                   @@ (IF bn THEN ("b:0" :> wshape) @@ ("m:0" :> mshape) @@ ("v:0" :> vshape)
                       ELSE << >>)
                   @@ (IF p.oshape THEN [o \in Range(output) |-> XShape] ELSE << >>),
         dtype |-> << >>,
         value |-> (IF p.x = "Const" THEN "x" :> Iota(XShape) ELSE << >>)
                   @@ (IF nin >= 2 /\ p.w = "Const" THEN "w" :> Iota(wshape) ELSE << >>)
                   @@ (IF bn THEN ("b" :> Iota(wshape)) @@ ("m" :> Iota(mshape))
                                  @@ ("v" :> Iota(vshape))
                       ELSE << >>),
         uid |-> 0,
         opset |-> p.opset,
         err |-> ""]

\* the parameters drawn: a constant has a known shape; a node without a second
\* input has no "w"; only FusedBatchNorm has statistics inputs; only the
\* kernel reshape reads the opset
ValidParams(p) ==
    /\ (p.x = "Const" => p.xshape)
    /\ (p.w = "Const" => p.wshape)
    /\ (NumInputs(p.type) = 1 => p.w = "Const" /\ p.wshape /\ p.wsib = 0)
    /\ (p.type = "DepthwiseConv2dNative" => p.xshape /\ p.wshape)
    /\ p.read \subseteq 1..NumOutputs(p.type)
    /\ (p.type # "FusedBatchNorm" => p.mean_full /\ p.var_full)
    /\ (p.type # "DepthwiseConv2dNative" => p.opset = 9)

InitConv ==
    /\ reg = {} /\ rpc = "off"
    /\ padNode = << >> /\ padPc = "off"
    /\ lshape = << >> /\ lnchw = << >> /\ lback = << >> /\ lpc = "off"
    /\ bIn = << >> /\ bPc = "off" /\ bLoop = << >> /\ bOut = << >>
    /\ \E type \in ConvTypes \cup {"FusedBatchNorm"}, fmt \in {"NHWC", "NCHW"},
          x \in {"Const", "Placeholder"}, xshape \in BOOLEAN, xsib \in 0..MaxSib,
          w \in {"Const", "Identity"}, wshape \in BOOLEAN, wsib \in 0..MaxSib,
          read \in SUBSET (1..3), oshape \in BOOLEAN,
          mean_full \in BOOLEAN, var_full \in BOOLEAN, opset \in {4, 9} :
            LET p == [type |-> type, fmt |-> fmt, x |-> x, xshape |-> xshape,
                      xsib |-> xsib, w |-> w, wshape |-> wshape, wsib |-> wsib,
                      read |-> read, oshape |-> oshape, mean_full |-> mean_full,
                      var_full |-> var_full, opset |-> opset]
            IN  ValidParams(p) /\ g = ConvGraph(p)
    /\ pre = g
    /\ call = [op |-> "", with_kernel |-> FALSE, new_kernel_shape |-> << >>,
               input_indices |-> << >>, output_indices |-> << >>]

\* a rule calls conv_convert_inputs on the node
ConvConvertInputs ==
    /\ call.op = ""
    /\ g.nodes["n"].type \in ConvTypes
    /\ LET a == CallArgs(g.nodes["n"])
       IN  /\ g' = conv_convert_inputs(g, "n", a.with_kernel, a.new_kernel_shape,
                                       a.input_indices, a.output_indices)
           /\ call' = [op |-> "conv_convert_inputs", with_kernel |-> a.with_kernel,
                       new_kernel_shape |-> a.new_kernel_shape,
                       input_indices |-> a.input_indices,
                       output_indices |-> a.output_indices]
    /\ pre' = g
    /\ UNCHANGED <<padVars, layVars, bandVars, dispVars>>

\* the batch-normalization rule rewrites the node
BatchNormRewrite ==
    /\ call.op = ""
    /\ g.nodes["n"].type \in BatchNormTypes
    /\ g' = BatchNorm_version_6(g, "n")
    /\ call' = [op |-> "BatchNorm.version_6", with_kernel |-> FALSE,
                new_kernel_shape |-> << >>, input_indices |-> <<0>>,
                output_indices |-> <<0>>]
    /\ pre' = g
    /\ UNCHANGED <<padVars, layVars, bandVars, dispVars>>

NextConv == ConvConvertInputs \/ BatchNormRewrite

-----------------------------------------------------------------------------
(* Claims about conv_convert_inputs and the batch-normalization rule *)

\* the 1-based input positions the recorded call converts on the graph G
ConvertedInputs(G) ==
    (IF is_nhwc(G.nodes["n"]) THEN {idx + 1 : idx \in Range(call.input_indices)} ELSE {})
        \cup (IF call.with_kernel THEN {2} ELSE {})

\* the Transpose nodes the call created that read the name
AdaptersOn(G, name) ==
    {m \in DOMAIN G.nodes \ DOMAIN pre.nodes :
        G.nodes[m].type = "Transpose" /\ G.nodes[m].input = <<name>>}

\* the constant producing the name, when it has exactly k or at least k
\* consumers before the call
ConstWith(name, k, more) ==
    /\ is_const(pre, producer(pre, name))
    /\ IF more THEN Cardinality(find_output_consumers(pre, name)) >= k
       ELSE Cardinality(find_output_consumers(pre, name)) = k

\* C1: after conv_convert_inputs, a converted input produced by a constant with
\* two or more consumers has its constant's value unchanged and a Transpose
\* adapter spliced on it, whatever the consumers of the node's other inputs.
C1_ConsumerSharingSafety ==
    (call.op # "" /\ g.err = "") =>
        \A i \in ConvertedInputs(pre) :
            LET name == pre.nodes["n"].input[i]
            IN  ConstWith(name, 2, TRUE) =>
                    /\ g.value[producer(pre, name)] = pre.value[producer(pre, name)]
                    /\ AdaptersOn(g, name) # {}

\* the graph before the call with one more reader of the node's second input:
\* on it every converted input takes the adapter path
NonFolding ==
    conv_convert_inputs(
        [pre EXCEPT !.nodes = ("other" :> NewNode("Identity", <<pre.nodes["n"].input[2]>>,
                                                   <<"other:0">>, << >>)) @@ @],
        "n", call.with_kernel, call.new_kernel_shape, call.input_indices,
        call.output_indices)

\* the converted input positions whose single-consumer constant was folded
FoldedInputs ==
    {i \in ConvertedInputs(pre) :
        /\ ConstWith(pre.nodes["n"].input[i], 1, FALSE)
        /\ AdaptersOn(g, pre.nodes["n"].input[i]) = {}}

\* C6: the value a folded single-consumer constant holds after the call equals,
\* entry by entry, the tensor the adapter of the non-folding path (its perm
\* applied to the original value) produces, and the shape recorded for that
\* adapter's output is that tensor's shape.
C6_ConstantFoldEquivalence ==
    (call.op # "" /\ g.err = "") =>
        \A i \in FoldedInputs :
            LET name == pre.nodes["n"].input[i]
                const == producer(pre, name)
            IN  \A m \in AdaptersOn(NonFolding, name) :
                    LET t == OnnxTranspose(pre.value[const], NonFolding.nodes[m].attr["perm"])
                    IN  /\ g.value[const] = t
                        /\ get_shape(NonFolding, NonFolding.nodes[m].output[1]) = t.shape

\* a Conv2D whose data input and kernel were both folded, the non-folding path
\* having an adapter on each
C6_Witness ==
    /\ call.op = "conv_convert_inputs" /\ g.err = ""
    /\ FoldedInputs = {1, 2}
    /\ g.value["x"] # pre.value["x"]
    /\ g.value["w"] # pre.value["w"]
    /\ AdaptersOn(NonFolding, "x:0") # {}
    /\ AdaptersOn(NonFolding, "w:0") # {}

\* the outputs of the node that have a reader before the rewrite
Consumed == {k \in DOMAIN pre.nodes["n"].output :
                find_output_consumers(pre, pre.nodes["n"].output[k]) # {}}

InputsConverted ==
    convert_with_kernel(convert_inputs(pre, "n", call.input_indices, 1), "n",
                        call.with_kernel, call.new_kernel_shape).err = ""

\* the Transpose nodes the call created behind the output name
OutputAdapters(o) ==
    {m \in DOMAIN g.nodes \ DOMAIN pre.nodes :
        g.nodes[m].type = "Transpose" /\ g.nodes[m].input = <<o>>}

\* C19: after conv_convert_inputs on a channel-last node, each designated
\* output is read by a Transpose adapter with perm NCHW_TO_NHWC whose output
\* carries the output's shape from before the call, the output itself carries
\* that shape mapped by NHWC_TO_NCHW, and every node that read the output
\* reads the adapter; for every shape of the output, a shape that is not
\* known (None) included.
C19_OutputAdapterShapes ==
    (call.op = "conv_convert_inputs" /\ is_nhwc(pre.nodes["n"]) /\ InputsConverted) =>
        /\ g.err = ""
        /\ \A idx \in Range(call.output_indices) :
              LET o == pre.nodes["n"].output[idx + 1]
              IN  /\ Cardinality(OutputAdapters(o)) = 1
                  /\ \A m \in OutputAdapters(o) :
                        /\ g.nodes[m].attr["perm"] = NCHW_TO_NHWC
                        /\ get_shape(g, g.nodes[m].output[1]) = get_shape(pre, o)
                        /\ get_shape(g, o) = IF get_shape(pre, o) = << >> THEN << >>
                                             ELSE spatial_map(get_shape(pre, o), NHWC_TO_NCHW)
                        /\ \A r \in find_output_consumers(pre, o) :
                              /\ o \notin Range(g.nodes[r].input)
                              /\ g.nodes[m].output[1] \in Range(g.nodes[r].input)

-----------------------------------------------------------------------------
(* The rules that build replacement nodes.  A rule's straight-line part is  *)
(* the sequence of the graph calls it makes, in source order, each with the *)
(* name utils.make_name gives it: the k-th name made after the rule starts  *)
(* on G carries the number G.uid + k.                                       *)

\* utils.make_name(base), the k-th name made from G on
fresh(G, base, k) == base \o "__" \o ToString(G.uid + k)

Tensor(shape, data) == [shape |-> shape, data |-> data]

\* ctx.make_node(op_type, inputs, attr): name and output made fresh
MakeNode(name, op_type, inputs, attr) ==
    [op |-> "make_node", made |-> TRUE, name |-> name, type |-> op_type, inputs |-> inputs,
     attr |-> attr, outputs |-> <<port_name(name)>>, shapes |-> << >>, dtypes |-> << >>]

\* ctx.make_node(op_type, inputs, attr, name=, outputs=, shapes=, dtypes=):
\* made says whether the name is a fresh one
MakeNodeAs(made, name, op_type, inputs, attr, outputs, shapes, dtypes) ==
    [op |-> "make_node", made |-> made, name |-> name, type |-> op_type, inputs |-> inputs,
     attr |-> attr, outputs |-> outputs, shapes |-> shapes, dtypes |-> dtypes]

\* ctx.make_const(utils.make_name(...), np_val)
MakeConst(name, np_val) == [op |-> "make_const", name |-> name, value |-> np_val]

\* ctx.remove_node(name)
RemoveNode(name) == [op |-> "remove_node", name |-> name]

\* ctx.set_dtype(name, dtype)
SetDtype(name, dtype) == [op |-> "set_dtype", name |-> name, dtype |-> dtype]

\* a subgraph built beside ctx (the Loop body): it takes k names
TakeNames(k) == [op |-> "take_names", k |-> k]

\* the shapes= and dtypes= of make_node, per output
set_outputs(G, outputs, shapes, dtypes) ==
    IF G.err # "" THEN G
    ELSE [G EXCEPT !.shape = [o \in {outputs[k] : k \in DOMAIN shapes} |->
                                 shapes[CHOOSE k \in DOMAIN shapes : outputs[k] = o]] @@ @,
                   !.dtype = [o \in {outputs[k] : k \in DOMAIN dtypes} |->
                                 dtypes[CHOOSE k \in DOMAIN dtypes : outputs[k] = o]] @@ @]

\* one graph call
exec(G, st) ==
    IF G.err # "" THEN G
    ELSE CASE st.op = "make_node" ->
                set_outputs(make_node(IF st.made THEN take_name(G) ELSE G, st.type, st.inputs,
                                      st.attr, st.name, st.outputs),
                            st.outputs, st.shapes, st.dtypes)
           [] st.op = "make_const" -> make_const(take_name(G), st.name, st.value)
           [] st.op = "remove_node" -> remove_node(G, st.name)
           [] st.op = "set_dtype" -> set_dtype(G, st.name, st.dtype)
           [] st.op = "take_names" -> [G EXCEPT !.uid = @ + st.k]
           [] st.op = "raise" -> Raise(G, st.err)

\* the calls of prog from the k-th on
RECURSIVE run(_, _, _)
run(G, prog, k) ==
    IF k > Len(prog) THEN G ELSE run(exec(G, prog[k]), prog, k + 1)

\* node.output_shapes and node.output_dtypes
output_shapes(G, node) == [k \in DOMAIN G.nodes[node].output |->
                              get_shape(G, G.nodes[node].output[k])]
output_dtypes(G, node) == [k \in DOMAIN G.nodes[node].output |->
                              get_dtype(G, G.nodes[node].output[k])]

\* ctx.remove_input(node, input_name): the slot is deleted, later slots shift
remove_input(G, node, input_name) ==
    IF G.err # "" THEN G
    ELSE IF input_name \notin Range(G.nodes[node].input) THEN Raise(G, "InputNotFoundError")
    ELSE LET k == CHOOSE i \in DOMAIN G.nodes[node].input :
                      /\ G.nodes[node].input[i] = input_name
                      /\ \A j \in 1..(i - 1) : G.nodes[node].input[j] # input_name
         IN  [G EXCEPT !.nodes[node].input =
                            SubSeq(@, 1, k - 1) \o SubSeq(@, k + 1, Len(@))]

\* node.inputs[idx].get_tensor_value(), idx 0-based
get_tensor_value(G, node, idx) == G.value[producer(G, G.nodes[node].input[idx + 1])].data

\* GraphBuilder(ctx).make_slice(inputs_map): a Slice node reading data
make_slice(name, data, attr) == MakeNode(name, "Slice", <<data>>, attr)

-----------------------------------------------------------------------------
(* Resize *)

\* "linear" if node.type == "ResizeBilinear" else "nearest"
resize_mode(G, node) == IF G.nodes[node].type = "ResizeBilinear" THEN "linear" ELSE "nearest"

\* "[1., 1., float(nh) / h, float(nw) / w]", a quotient kept as its two terms
scaler(shape, target_shape) ==
    <<[num |-> 1, den |-> 1], [num |-> 1, den |-> 1],
      [num |-> target_shape[1], den |-> shape[2]],
      [num |-> target_shape[2], den |-> shape[3]]>>

\* lines 492-496: the attributes, the size input dropped, the layout set
resize_7_node(G, node, mode, scales) ==
    [remove_input(set_attr(set_attr(G, node, "scales", scales), node, "mode", mode),
                  node, G.nodes[node].input[2])
        EXCEPT !.nodes[node].data_format = "NHWC"]

\* Resize.version_7(ctx, node)
Resize_version_7(G, node) ==
    LET G1 == [G EXCEPT !.nodes[node].type = "Upsample"]
        shape == get_shape(G, G.nodes[node].input[1])
    IN  IF ~is_const(G, producer(G, G.nodes[node].input[2])) THEN Raise(G1, "ValueError")
        ELSE IF shape = << >> THEN Raise(G1, "TypeError")
        ELSE IF Len(shape) # 4 \/ Len(get_tensor_value(G, node, 1)) # 2
        THEN Raise(G1, "ValueError")
        ELSE IF \E i \in 1..2 : get_tensor_value(G, node, 1)[i] = -1
        THEN Raise(G1, "ValueError")
        ELSE IF shape[2] = 0 \/ shape[3] = 0 THEN Raise(G1, "ZeroDivisionError")
        ELSE conv_convert_inputs(
                 resize_7_node(G1, node, resize_mode(G, node),
                               scaler(shape, get_tensor_value(G, node, 1))),
                 node, FALSE, << >>, <<0>>, <<0>>)

\* lines 541-548: the calls after the scales, scales being the k-th name made
resize_tail(G, node, op_type, scales, k) ==
    <<MakeNode(fresh(G, "Transpose", k + 1), "Transpose", <<G.nodes[node].input[1]>>,
               "perm" :> <<0, 3, 1, 2>>),
      MakeNode(fresh(G, op_type, k + 2), op_type,
               <<port_name(fresh(G, "Transpose", k + 1)), scales>>,
               "mode" :> resize_mode(G, node)),
      RemoveNode(node),
      MakeNodeAs(FALSE, node, "Transpose", <<port_name(fresh(G, op_type, k + 2))>>,
                 "perm" :> <<0, 2, 3, 1>>, G.nodes[node].output,
                 output_shapes(G, node), output_dtypes(G, node))>>

\* lines 521-527: the scales computed from the shapes and stored as a constant
resize_static(G, node, op_type) ==
    <<MakeConst(fresh(G, "scales", 1),
                Tensor(<<4>>, scaler(get_shape(G, G.nodes[node].input[1]),
                                     get_tensor_value(G, node, 1))))>>
        \o resize_tail(G, node, op_type, fresh(G, "scales", 1), 1)

\* lines 529-541: the scales computed in the graph
resize_dynamic(G, node, op_type) ==
    <<MakeNode(fresh(G, "Shape", 1), "Shape", <<G.nodes[node].input[1]>>, << >>),
      make_slice(fresh(G, "Slice", 2), port_name(fresh(G, "Shape", 1)),
                 ("axes" :> <<0>>) @@ ("starts" :> <<1>>) @@ ("ends" :> <<3>>)),
      MakeNode(fresh(G, "Cast", 3), "Cast", <<port_name(fresh(G, "Slice", 2))>>,
               "to" :> "float"),
      MakeNode(fresh(G, "Cast", 4), "Cast", <<G.nodes[node].input[2]>>, "to" :> "float"),
      MakeNode(fresh(G, "Div", 5), "Div",
               <<port_name(fresh(G, "Cast", 4)), port_name(fresh(G, "Cast", 3))>>, << >>),
      MakeConst(fresh(G, "one", 6), Tensor(<<2>>, <<1, 1>>)),
      MakeNode(fresh(G, "Concat", 7), "Concat",
               <<fresh(G, "one", 6), port_name(fresh(G, "Div", 5))>>, "axis" :> 0)>>
        \o resize_tail(G, node, op_type, port_name(fresh(G, "Concat", 7)), 7)

\* Resize._convert_since_9(ctx, node, op_type)
convert_since_9(G, node, op_type) ==
    LET shape == get_shape(G, G.nodes[node].input[1])
    IN  IF shape # << >> /\ Len(shape) < 3 THEN Raise(G, "IndexError")
        ELSE IF shape # << >> /\ shape[3] # -1 /\ shape[2] # -1
                /\ is_const(G, producer(G, G.nodes[node].input[2]))
        THEN IF Len(shape) # 4 \/ Len(get_tensor_value(G, node, 1)) # 2
             THEN Raise(G, "ValueError")
             ELSE IF shape[2] = 0 \/ shape[3] = 0 THEN Raise(G, "ZeroDivisionError")
             ELSE run(G, resize_static(G, node, op_type), 1)
        ELSE run(G, resize_dynamic(G, node, op_type), 1)

\* Resize.version_9 with the operator of version_10
Resize_version_10_as_9(G, node) == convert_since_9(G, node, "Upsample")

\* Resize.version_9(ctx, node) and Resize.version_10(ctx, node)
Resize_version_9(G, node) == convert_since_9(G, node, "Upsample")
Resize_version_10(G, node) == convert_since_9(G, node, "Resize")

-----------------------------------------------------------------------------
(* SoftmaxCrossEntropyWithLogits *)

\* _make_softmax_cross_entropy_with_logits(ctx, label, logit, tf_ori_node),
\* label and logit being output names; k names were made before the call
make_softmax_cross_entropy_with_logits(G, label, logit, tf_ori_node, k) ==
    <<MakeNode(fresh(G, "LogSoftmax", k + 1), "LogSoftmax", <<logit>>, << >>),
      MakeNode(fresh(G, "Mul", k + 2), "Mul",
               <<label, port_name(fresh(G, "LogSoftmax", k + 1))>>, << >>),
      MakeNode(fresh(G, "ReduceSum", k + 3), "ReduceSum",
               <<port_name(fresh(G, "Mul", k + 2))>>, "axes" :> <<-1>>),
      MakeConst(fresh(G, "const_negative_one", k + 4), Tensor(<< >>, -1)),
      MakeNode(fresh(G, "Mul", k + 5), "Mul",
               <<fresh(G, "const_negative_one", k + 4),
                 port_name(fresh(G, "ReduceSum", k + 3))>>, << >>),
      RemoveNode(tf_ori_node),
      MakeNodeAs(TRUE, fresh(G, "Squeeze", k + 6), "Squeeze",
                 <<port_name(fresh(G, "Mul", k + 5))>>, "axes" :> <<1>>,
                 <<G.nodes[tf_ori_node].output[1]>>,
                 <<output_shapes(G, tf_ori_node)[1]>>,
                 <<output_dtypes(G, tf_ori_node)[1]>>)>>

\* SoftmaxCrossEntropyWithLogits.version_7(ctx, node)
SoftmaxCrossEntropyWithLogits_version_7(G, node) ==
    LET logits == G.nodes[node].input[1]
        labels == G.nodes[node].input[2]
        logit_dtype == get_dtype(G, logits)
    IN  IF get_dtype(G, labels) # logit_dtype
        THEN run(G, <<MakeNodeAs(TRUE, fresh(G, "Cast", 1), "Cast", <<labels>>,
                                 "to" :> logit_dtype, <<port_name(fresh(G, "Cast", 1))>>,
                                 << >>, <<logit_dtype>>)>>
                        \o make_softmax_cross_entropy_with_logits(
                               G, port_name(fresh(G, "Cast", 1)), logits, node, 1), 1)
        ELSE run(G, make_softmax_cross_entropy_with_logits(G, labels, logits, node, 0), 1)

-----------------------------------------------------------------------------
(* MatrixBandPart.version_7: the nodes it builds (their evaluation is the   *)
(* band section above)                                                      *)

\* utils.port_name(name, 1)
port_name_1(name) == name \o ":1"

\* ctx.create_new_graph_with_same_config(), the name counter being shared
new_graph(G, uid) ==
    [nodes |-> << >>, shape |-> << >>, dtype |-> << >>, value |-> << >>,
     uid |-> uid, opset |-> G.opset, err |-> ""]

\* lines 583-600: the Loop body, built on a graph of its own after k names;
\* it reads zero_bool, the const_zero_bool of the outer graph
band_body(G, zero_bool, counter_axis, k) ==
    [nodes |-> run(new_graph(G, G.uid + k),
                   <<MakeNodeAs(TRUE, fresh(G, "Concat", k + 1), "Concat",
                                <<zero_bool, "line">>, "axis" :> counter_axis,
                                <<port_name(fresh(G, "Concat", k + 1))>>, << >>, <<"bool">>),
                     make_slice(fresh(G, "Slice", k + 2),
                                port_name(fresh(G, "Concat", k + 1)),
                                ("axes" :> <<counter_axis>>) @@ ("starts" :> <<0>>)
                                    @@ ("ends" :> <<-1>>)),
                     MakeNodeAs(TRUE, fresh(G, "Identity", k + 3), "Identity", <<"cond">>,
                                << >>, <<"cond_out">>, << >>, << >>),
                     MakeNodeAs(TRUE, fresh(G, "Identity", k + 4), "Identity", <<"line">>,
                                << >>, <<"res">>, << >>, << >>),
                     MakeNodeAs(TRUE, fresh(G, "Identity", k + 5), "Identity",
                                <<port_name(fresh(G, "Slice", k + 2))>>,
                                << >>, <<"line_out">>, << >>, << >>)>>, 1).nodes,
     inputs |-> <<"trip", "cond", "line">>,
     outputs |-> <<"cond_out", "line_out", "res">>]

\* lines 566-574: one_line, the all-true first column or row
band_one_line(G, node, axis) ==
    <<MakeConst(fresh(G, "const_zero", 1), Tensor(<<1>>, <<0>>)),
      MakeNode(fresh(G, "Gather", 2), "Gather",
               <<G.nodes[node].input[1], fresh(G, "const_zero", 1)>>, "axis" :> axis),
      MakeNode(fresh(G, "Cast", 3), "Cast", <<port_name(fresh(G, "Gather", 2))>>,
               "to" :> "bool"),
      MakeNode(fresh(G, "Xor", 4), "Xor",
               <<port_name(fresh(G, "Cast", 3)), port_name(fresh(G, "Cast", 3))>>, << >>),
      MakeNode(fresh(G, "Not", 5), "Not", <<port_name(fresh(G, "Xor", 4))>>, << >>)>>

\* lines 577-611: the Loop, its body and its initial values
band_loop(G, node, axis, counter_axis) ==
    <<MakeConst(fresh(G, "const_zero_bool", 6), Tensor(<<1, 1>>, <<<<FALSE>>>>)),
      SetDtype(fresh(G, "const_zero_bool", 6), "bool"),
      TakeNames(5),
      MakeNode(fresh(G, "Shape", 12), "Shape", <<G.nodes[node].input[1]>>, << >>),
      MakeConst(fresh(G, "line_num_index", 13), Tensor(<< >>, axis)),
      MakeNode(fresh(G, "Gather", 14), "Gather",
               <<port_name(fresh(G, "Shape", 12)), fresh(G, "line_num_index", 13)>>, << >>),
      MakeConst(fresh(G, "true", 15), Tensor(<< >>, TRUE)),
      MakeNodeAs(TRUE, fresh(G, "Loop", 16), "Loop",
                 <<port_name(fresh(G, "Gather", 14)), fresh(G, "true", 15),
                   port_name(fresh(G, "Not", 5))>>,
                 "body" :> band_body(G, fresh(G, "const_zero_bool", 6), counter_axis, 6),
                 <<port_name(fresh(G, "Loop", 16)), port_name_1(fresh(G, "Loop", 16))>>,
                 << >>, << >>)>>

\* lines 613-628: the mask squeezed, cast, transposed for the lower band, and
\* multiplied with the input under the node's name and outputs
band_mask(G, node, axis, squeeze_axis) ==
    <<MakeNode(fresh(G, "Squeeze", 17), "Squeeze", <<port_name_1(fresh(G, "Loop", 16))>>,
               "axes" :> <<squeeze_axis>>),
      MakeNode(fresh(G, "Cast", 18), "Cast", <<port_name(fresh(G, "Squeeze", 17))>>,
               "to" :> "float")>>
    \o (IF axis = 1
        THEN <<MakeNode(fresh(G, "Transpose", 19), "Transpose",
                        <<port_name(fresh(G, "Cast", 18))>>, << >>),
               MakeNode(fresh(G, "Cast", 20), "Cast",
                        <<port_name(fresh(G, "Transpose", 19))>>,
                        "to" :> get_dtype(G, G.nodes[node].input[1]))>>
        ELSE <<MakeNode(fresh(G, "Cast", 19), "Cast",
                        <<port_name(fresh(G, "Squeeze", 17))>>,
                        "to" :> get_dtype(G, G.nodes[node].input[1]))>>)
    \o <<RemoveNode(node),
         MakeNodeAs(FALSE, node, "Mul",
                    <<port_name(fresh(G, "Cast", IF axis = 1 THEN 20 ELSE 19)),
                      G.nodes[node].input[1]>>,
                    << >>, G.nodes[node].output,
                    output_shapes(G, node), output_dtypes(G, node))>>

\* MatrixBandPart.version_7(ctx, node)
MatrixBandPart_version_7(G, node) ==
    LET shape == get_shape(G, G.nodes[node].input[1])
        bandpart == <<get_tensor_value(G, node, 1), get_tensor_value(G, node, 2)>>
        axes == BandAxes(bandpart)
    IN  IF shape = << >> THEN Raise(G, "TypeError")
        ELSE IF Len(shape) # 2 THEN Raise(G, "ValueError")
        ELSE IF bandpart \notin {<<-1, 0>>, <<0, -1>>} THEN Raise(G, "ValueError")
        ELSE run(G, band_one_line(G, node, axes.axis)
                        \o band_loop(G, node, axes.axis, axes.counter_axis)
                        \o band_mask(G, node, axes.axis, axes.squeeze_axis), 1)

-----------------------------------------------------------------------------
(* SparseSoftmaxCrossEntropyWithLogits *)

\* the class count above which the one-hot matrix is not built (line 750)
MaxEyeDepth == 20000

\* controlflow.make_range(ctx, start, limit, delta, output, name): the range
\* under the given name and output
make_range(name, start, limit, delta, output) ==
    MakeNodeAs(FALSE, name, "Range", <<start, limit, delta>>, << >>, <<output>>,
               <<<<UNKNOWN>>>>, <<"int64">>)

\* tensor.make_gathernd(ctx, params, indices, output, name, dtype, shapes, dtypes)
make_gathernd(name, params, indices, output, shapes, dtypes) ==
    MakeNodeAs(FALSE, name, "GatherND", <<params, indices>>, << >>, <<output>>,
               shapes, dtypes)

\* lines 663-692 of sparse_softmax_cross_entropy_with_logits_op_by_gathernd,
\* indices being the labels or their cast, made after k names
gathernd_calls(G, node, indices, k) ==
    <<MakeNode(fresh(G, "Size", k + 1), "Size", <<indices>>, << >>),
      MakeNode(fresh(G, "Unsqueeze", k + 2), "Unsqueeze", <<indices>>, "axes" :> <<1>>),
      MakeConst(fresh(G, "zero", k + 3), Tensor(<< >>, 0)),
      MakeConst(fresh(G, "one", k + 4), Tensor(<< >>, 1)),
      TakeNames(1),
      make_range(fresh(G, "sparse_softmax_id", k + 5), fresh(G, "zero", k + 3),
                 port_name(fresh(G, "Size", k + 1)), fresh(G, "one", k + 4),
                 port_name(fresh(G, "sparse_softmax_id", k + 5))),
      MakeNode(fresh(G, "Unsqueeze", k + 6), "Unsqueeze",
               <<port_name(fresh(G, "sparse_softmax_id", k + 5))>>, "axes" :> <<1>>),
      MakeNode(fresh(G, "Concat", k + 7), "Concat",
               <<port_name(fresh(G, "Unsqueeze", k + 6)),
                 port_name(fresh(G, "Unsqueeze", k + 2))>>, "axis" :> 1),
      MakeNodeAs(TRUE, fresh(G, "LogSoftmax", k + 8), "LogSoftmax",
                 <<G.nodes[node].input[1]>>, << >>,
                 <<port_name(fresh(G, "LogSoftmax", k + 8))>>,
                 <<get_shape(G, G.nodes[node].input[1])>>,
                 <<get_dtype(G, G.nodes[node].input[1])>>),
      TakeNames(1),
      make_gathernd(fresh(G, "sparse_softmax_gathernd", k + 9),
                    port_name(fresh(G, "LogSoftmax", k + 8)),
                    port_name(fresh(G, "Concat", k + 7)),
                    port_name(fresh(G, "sparse_softmax_gathernd", k + 9)),
                    <<get_shape(G, G.nodes[node].input[1])>>,
                    <<get_dtype(G, G.nodes[node].input[1])>>),
      MakeConst(fresh(G, "const_negative_one", k + 10), Tensor(<< >>, -1)),
      MakeNode(fresh(G, "Mul", k + 11), "Mul",
               <<fresh(G, "const_negative_one", k + 10),
                 port_name(fresh(G, "sparse_softmax_gathernd", k + 9))>>, << >>),
      RemoveNode(node),
      MakeNodeAs(TRUE, fresh(G, "Squeeze", k + 12), "Squeeze",
                 <<port_name(fresh(G, "Mul", k + 11))>>, "axes" :> <<1>>,
                 <<G.nodes[node].output[1]>>, <<output_shapes(G, node)[1]>>,
                 <<output_dtypes(G, node)[1]>>)>>

\* sparse_softmax_cross_entropy_with_logits_op_by_gathernd(ctx, node)
sparse_softmax_cross_entropy_with_logits_op_by_gathernd(G, node) ==
    LET indices_name == G.nodes[node].input[2]
    IN  IF get_shape(G, indices_name) = << >> THEN Raise(G, "TypeError")
        ELSE IF Len(get_shape(G, indices_name)) # 1 THEN Raise(G, "ValueError")
        ELSE IF get_dtype(G, G.nodes[node].input[1]) = "" THEN Raise(G, "ValueError")
        ELSE IF get_dtype(G, indices_name) # "int64"
        THEN run(G, <<MakeNode(fresh(G, "Cast", 1), "Cast", <<indices_name>>,
                               "to" :> "int64")>>
                        \o gathernd_calls(G, node, port_name(fresh(G, "Cast", 1)), 1), 1)
        ELSE run(G, gathernd_calls(G, node, indices_name, 0), 1)

\* lines 757-773: the one-hot labels gathered from an identity matrix
sparse_7_calls(G, node, depth) ==
    <<MakeConst(fresh(G, "const_eye", 1), Tensor(<<depth, depth>>, "eye")),
      MakeNode(fresh(G, "Gather", 2), "Gather",
               <<fresh(G, "const_eye", 1), G.nodes[node].input[2]>>, "axis" :> 0),
      MakeNode(fresh(G, "LogSoftmax", 3), "LogSoftmax", <<G.nodes[node].input[1]>>, << >>),
      MakeNode(fresh(G, "Mul", 4), "Mul",
               <<port_name(fresh(G, "Gather", 2)), port_name(fresh(G, "LogSoftmax", 3))>>,
               << >>),
      MakeNode(fresh(G, "ReduceSum", 5), "ReduceSum", <<port_name(fresh(G, "Mul", 4))>>,
               "axes" :> <<1>>),
      MakeConst(fresh(G, "const_negative_one", 6), Tensor(<< >>, -1)),
      MakeNode(fresh(G, "Mul", 7), "Mul",
               <<fresh(G, "const_negative_one", 6), port_name(fresh(G, "ReduceSum", 5))>>,
               << >>),
      RemoveNode(node),
      MakeNodeAs(TRUE, fresh(G, "Squeeze", 8), "Squeeze",
                 <<port_name(fresh(G, "Mul", 7))>>, "axes" :> <<1>>,
                 <<G.nodes[node].output[1]>>, <<output_shapes(G, node)[1]>>,
                 <<output_dtypes(G, node)[1]>>)>>

\* the test of line 750 with ">=" in the place of ">"
too_many_classes_from(depth) == depth = UNKNOWN \/ depth >= MaxEyeDepth

\* "depth == utils.ONNX_UNKNOWN_DIMENSION or depth > 20000"
too_many_classes(depth) == depth = UNKNOWN \/ depth > MaxEyeDepth

\* SparseSoftmaxCrossEntropyWithLogits.version_7(ctx, node)
SparseSoftmaxCrossEntropyWithLogits_version_7(G, node) ==
    LET indices_shape == get_shape(G, G.nodes[node].input[2])
        logit_shape == get_shape(G, G.nodes[node].input[1])
    IN  IF indices_shape = << >> THEN Raise(G, "TypeError")
        ELSE IF Len(indices_shape) # 1 THEN Raise(G, "ValueError")
        ELSE IF logit_shape = << >> THEN Raise(G, "TypeError")
        ELSE IF too_many_classes(logit_shape[Len(logit_shape)])
        THEN sparse_softmax_cross_entropy_with_logits_op_by_gathernd(G, node)
        ELSE IF get_dtype(G, G.nodes[node].input[1]) = "" THEN Raise(G, "ValueError")
        ELSE run(G, sparse_7_calls(G, node, logit_shape[Len(logit_shape)]), 1)

\* utils.make_sure(False, ...) at this point of the rule
Fail(err) == [op |-> "raise", err |-> err]

\* _make_sparse_softmax_cross_entropy_with_logits(ctx, label, logit,
\* tf_ori_node), label and logit being output names, after k names
make_sparse_softmax_cross_entropy_with_logits(G, label, logit, tf_ori_node, k) ==
    <<MakeNode(fresh(G, "Exp", k + 1), "Exp", <<logit>>, << >>),
      MakeNode(fresh(G, "ReduceSum", k + 2), "ReduceSum",
               <<port_name(fresh(G, "Exp", k + 1))>>,
               ("axes" :> <<-1>>) @@ ("keepdims" :> 0)),
      MakeNode(fresh(G, "Mul", k + 3), "Mul",
               <<label, port_name(fresh(G, "Exp", k + 1))>>, << >>),
      MakeNode(fresh(G, "ReduceSum", k + 4), "ReduceSum",
               <<port_name(fresh(G, "Mul", k + 3))>>,
               ("axes" :> <<-1>>) @@ ("keepdims" :> 0)),
      MakeNode(fresh(G, "Div", k + 5), "Div",
               <<port_name(fresh(G, "ReduceSum", k + 4)),
                 port_name(fresh(G, "ReduceSum", k + 2))>>, << >>),
      MakeNode(fresh(G, "Log", k + 6), "Log", <<port_name(fresh(G, "Div", k + 5))>>, << >>),
      MakeConst(fresh(G, "const_negative_one", k + 7), Tensor(<< >>, -1)),
      RemoveNode(tf_ori_node),
      MakeNodeAs(TRUE, fresh(G, "Mul", k + 8), "Mul",
                 <<port_name(fresh(G, "Log", k + 6)), fresh(G, "const_negative_one", k + 7)>>,
                 << >>, <<G.nodes[tf_ori_node].output[1]>>,
                 <<output_shapes(G, tf_ori_node)[1]>>,
                 <<output_dtypes(G, tf_ori_node)[1]>>)>>

\* lines 785-794: the class count, a constant when the logits' last
\* dimension is known (static), sliced from their shape otherwise
sparse_9_depth(G, node, static) ==
    IF static
    THEN <<MakeConst(fresh(G, "onehot_depth", 1),
                     Tensor(<<1>>, <<get_shape(G, G.nodes[node].input[1])[
                                        Len(get_shape(G, G.nodes[node].input[1]))]>>))>>
    ELSE <<MakeNode(fresh(G, "Shape", 1), "Shape", <<G.nodes[node].input[1]>>, << >>),
           make_slice(fresh(G, "Slice", 2), port_name(fresh(G, "Shape", 1)),
                      ("starts" :> <<-1>>) @@ ("ends" :> <<2147483647>>))>>

\* lines 795-808: the one-hot labels, cast to the logits' type, and the loss;
\* depth_node was made with the k names before
sparse_9_onehot(G, node, depth_node, k) ==
    LET label_name == G.nodes[node].input[2]
        logit_dtype == get_dtype(G, G.nodes[node].input[1])
        cast == get_dtype(G, label_name) # "int64"
        k2 == IF cast THEN k + 2 ELSE k + 1
    IN  <<MakeConst(fresh(G, "onehot_values", k + 1), Tensor(<<2>>, <<0, 1>>))>>
        \o (IF cast
            THEN <<MakeNode(fresh(G, "Cast", k + 2), "Cast", <<label_name>>, "to" :> "int64")>>
            ELSE << >>)
        \o <<MakeNode(fresh(G, "OneHot", k2 + 1), "OneHot",
                      <<IF cast THEN port_name(fresh(G, "Cast", k + 2)) ELSE label_name,
                        depth_node, fresh(G, "onehot_values", k + 1)>>, << >>)>>
        \o (IF logit_dtype # "int64"
            THEN <<MakeNodeAs(TRUE, fresh(G, "Cast", k2 + 2), "Cast",
                              <<port_name(fresh(G, "OneHot", k2 + 1))>>, "to" :> logit_dtype,
                              <<port_name(fresh(G, "Cast", k2 + 2))>>, << >>,
                              <<logit_dtype>>)>>
                 \o make_sparse_softmax_cross_entropy_with_logits(
                        G, port_name(fresh(G, "Cast", k2 + 2)), G.nodes[node].input[1],
                        node, k2 + 2)
            ELSE <<Fail("ValueError")>>)

\* SparseSoftmaxCrossEntropyWithLogits.version_9(ctx, node)
SparseSoftmaxCrossEntropyWithLogits_version_9(G, node) ==
    LET logit_shape == get_shape(G, G.nodes[node].input[1])
    IN  IF logit_shape # << >> /\ logit_shape[Len(logit_shape)] # UNKNOWN
        THEN run(G, sparse_9_depth(G, node, TRUE)
                        \o sparse_9_onehot(G, node, fresh(G, "onehot_depth", 1), 1), 1)
        ELSE run(G, sparse_9_depth(G, node, FALSE)
                        \o sparse_9_onehot(G, node, port_name(fresh(G, "Slice", 2)), 2), 1)

\* BatchNorm.version_9(ctx, node)
BatchNorm_version_9(G, node) == BatchNorm_version_6(G, node)

-----------------------------------------------------------------------------
(* Dispatch: the rules of this file by operator and minimum version, and    *)
(* the registry's choice among them.                                        *)

\* the highest target version requested
MaxOpset == 11
\* most versions the operator of another module has rules for
MaxRules == 3

ResizeTypes == {"ResizeBilinear", "ResizeNearestNeighbor"}

\* the version_N methods of the classes registered by tf_op
ResizeVersions == {7, 9, 10}
BatchNormVersions == {6, 9}
MatrixBandPartVersions == {7}
SoftmaxVersions == {7}
SparseSoftmaxVersions == {7, 9}

\* the class tf_op registers for the operator ("Other": a class of another module)
ClassOf(type) ==
    IF type \in ResizeTypes THEN "Resize"
    ELSE IF type \in BatchNormTypes THEN "BatchNorm"
    ELSE IF type \in {"MatrixBandPart", "SoftmaxCrossEntropyWithLogits",
                      "SparseSoftmaxCrossEntropyWithLogits"} THEN type
    ELSE "Other"

VersionsOf(type) ==
    IF type \in ResizeTypes THEN ResizeVersions
    ELSE IF type \in BatchNormTypes THEN BatchNormVersions
    ELSE IF type = "MatrixBandPart" THEN MatrixBandPartVersions
    ELSE IF type = "SoftmaxCrossEntropyWithLogits" THEN SoftmaxVersions
    ELSE IF type = "SparseSoftmaxCrossEntropyWithLogits" THEN SparseSoftmaxVersions
    ELSE {}

\* the registry filled for a target version: every version from k up to the
\* target overrides the rule found so far (0: none)
RECURSIVE create_mapping(_, _, _, _)
create_mapping(versions, target, k, found) ==
    IF k > target THEN found
    ELSE create_mapping(versions, target, k + 1, IF k \in versions THEN k ELSE found)

\* the rule's name
RuleName(type, version) == ClassOf(type) \o ".version_" \o ToString(version)

-----------------------------------------------------------------------------
(* The graphs the rules are dispatched on: the node "n", the producers of   *)
(* its inputs and the readers of its outputs.  a, b and c pick the inputs'  *)
(* shapes, types and values by position in the tables below.                *)

RewriteTypes == ResizeTypes \cup {"FusedBatchNorm", "MatrixBandPart",
                                  "SoftmaxCrossEntropyWithLogits",
                                  "SparseSoftmaxCrossEntropyWithLogits", "Other"}

ResizeShapes == <<<< >>, <<1, 2, 4, 3>>, <<1, UNKNOWN, 4, 3>>, <<1, 2, UNKNOWN, 3>>, <<2, 3>>>>
ResizeSizes == <<<<4, 8>>, <<UNKNOWN, 8>>, << >>>>
ResizeOutShapes == <<<< >>, <<1, 4, 8, 3>>>>
BandShapes == <<<< >>, <<4, 4>>, <<2, 3, 4>>>>
BandParts == <<<<-1, 0>>, <<0, -1>>, <<0, 0>>>>
LabelDtypes == <<"float", "int32", "int64">>
LogitShapes == <<<< >>, <<2, 3>>, <<2, UNKNOWN>>, <<2, MaxEyeDepth + 1>>, <<2, MaxEyeDepth>>,
                 <<2, 1>>>>
LabelShapes == <<<<2>>, <<2, 1>>>>
Formats == <<"NHWC", "NCHW">>

\* how many choices a, b and c have for the type
Choices(type) ==
    IF type \in ResizeTypes THEN <<Len(ResizeShapes), Len(ResizeSizes), Len(ResizeOutShapes)>>
    ELSE IF type = "MatrixBandPart" THEN <<Len(BandShapes), Len(BandParts), 1>>
    ELSE IF type = "SoftmaxCrossEntropyWithLogits" THEN <<2, 1, 1>>
    ELSE IF type = "SparseSoftmaxCrossEntropyWithLogits"
    THEN <<Len(LogitShapes), Len(LabelShapes), 2>>
    ELSE IF type = "FusedBatchNorm" THEN <<Len(Formats), 1, 1>>
    ELSE <<1, 1, 1>>

RewriteOutputs(type) ==
    IF type \in {"SoftmaxCrossEntropyWithLogits", "SparseSoftmaxCrossEntropyWithLogits"}
    THEN 2 ELSE IF type = "FusedBatchNorm" THEN 3 ELSE 1

\* an input producer: its node, and the shape, element type and value of its output
Input(name, type, shape, dtype, value) ==
    [name |-> name, type |-> type, shape |-> shape, dtype |-> dtype, value |-> value]

\* the inputs of the node for the choices
InputsOf(type, a, b) ==
    IF type \in ResizeTypes
    THEN <<Input("x", "Placeholder", ResizeShapes[a], "float", << >>),
           Input("size", IF ResizeSizes[b] = << >> THEN "Identity" ELSE "Const", <<2>>,
                 "int32", ResizeSizes[b])>>
    ELSE IF type = "MatrixBandPart"
    THEN <<Input("x", "Placeholder", BandShapes[a], "float", << >>),
           Input("lower", "Const", << >>, "int64", BandParts[b][1]),
           Input("upper", "Const", << >>, "int64", BandParts[b][2])>>
    ELSE IF type = "SoftmaxCrossEntropyWithLogits"
    THEN <<Input("logits", "Placeholder", <<2, 3>>, "float", << >>),
           Input("labels", "Placeholder", <<2, 3>>, LabelDtypes[a], << >>)>>
    ELSE IF type = "SparseSoftmaxCrossEntropyWithLogits"
    THEN <<Input("logits", "Placeholder", LogitShapes[a], "float", << >>),
           Input("labels", "Placeholder", LabelShapes[b], "int32", << >>)>>
    ELSE << >>

\* the graph of a node of the type with the chosen inputs, read the outputs
\* whose positions are in read, at target version opset
NodeGraph(type, ins, oshape, read, opset) ==
    LET output == [k \in 1..RewriteOutputs(type) |-> "n:" \o ToString(k - 1)]
        at(nm) == ins[CHOOSE i \in DOMAIN ins : ins[i].name = nm]
        names == {ins[i].name : i \in DOMAIN ins}
    IN  [nodes |-> [nm \in names |-> NewNode(at(nm).type, << >>, <<port_name(nm)>>, << >>)]
                   @@ ("n" :> NewNode(type, [i \in DOMAIN ins |-> port_name(ins[i].name)],
                                      output, << >>))
                   @@ [nm \in {"c" \o ToString(k) : k \in read} |->
                          NewNode("Identity",
                                  <<output[CHOOSE k \in read : nm = "c" \o ToString(k)]>>,
                                  <<port_name(nm)>>, << >>)],
         shape |-> [p \in {port_name(nm) : nm \in names} |->
                       at(CHOOSE nm \in names : port_name(nm) = p).shape]
                   @@ [o \in Range(output) |-> oshape],
         dtype |-> [p \in {port_name(nm) : nm \in names} |->
                       at(CHOOSE nm \in names : port_name(nm) = p).dtype]
                   @@ [o \in Range(output) |-> "float"],
         value |-> [nm \in {x \in names : at(x).type = "Const"} |->
                       Tensor(at(nm).shape, at(nm).value)],
         uid |-> 0,
         opset |-> opset,
         err |-> ""]

RewriteGraph(type, a, b, c, read, opset) ==
    IF type = "FusedBatchNorm"
    THEN ConvGraph([type |-> type, fmt |-> Formats[a], x |-> "Placeholder", xshape |-> TRUE,
                    xsib |-> 0, w |-> "Const", wshape |-> TRUE, wsib |-> 0, read |-> read,
                    oshape |-> TRUE, mean_full |-> TRUE, var_full |-> TRUE, opset |-> opset])
    ELSE IF type = "SparseSoftmaxCrossEntropyWithLogits"
    THEN NodeGraph(type,
                   [InputsOf(type, a, b) EXCEPT ![2].dtype = LabelDtypes[c + 1]],
                   <<2>>, read, opset)
    ELSE NodeGraph(type, InputsOf(type, a, b),
                   IF type \in ResizeTypes THEN ResizeOutShapes[c]
                   ELSE IF type = "MatrixBandPart" THEN BandShapes[a] ELSE <<2>>,
                   read, opset)

\* the version sets drawn for the operator of another module
VersionSets == {vs \in SUBSET (1..MaxOpset) : Cardinality(vs) <= MaxRules}

InitRewrite ==
    /\ padNode = << >> /\ padPc = "off"
    /\ lshape = << >> /\ lnchw = << >> /\ lback = << >> /\ lpc = "off"
    /\ bIn = << >> /\ bPc = "off" /\ bLoop = << >> /\ bOut = << >>
    /\ \E type \in RewriteTypes :
        \E a \in 1..Choices(type)[1], b \in 1..Choices(type)[2], c \in 1..Choices(type)[3],
           read \in SUBSET (1..RewriteOutputs(type)), opset \in 0..MaxOpset :
            g = RewriteGraph(type, a, b, c, read, opset)
    /\ pre = g
    /\ reg \in (IF g.nodes["n"].type = "Other" THEN VersionSets
                ELSE {VersionsOf(g.nodes["n"].type)})
    /\ call = [op |-> "", version |-> 0]
    /\ rpc = "start"

\* the registry is asked for the rule of the node's operator at the target
\* version: the rule is selected, or the conversion fails
Dispatch ==
    /\ rpc = "start"
    /\ call' = [op |-> RuleName(g.nodes["n"].type, create_mapping(reg, g.opset, 1, 0)),
                version |-> create_mapping(reg, g.opset, 1, 0)]
    /\ rpc' = IF create_mapping(reg, g.opset, 1, 0) = 0 THEN "failed" ELSE "selected"
    /\ g' = IF create_mapping(reg, g.opset, 1, 0) = 0
            THEN Raise(g, "UnsupportedOperatorError") ELSE g
    /\ UNCHANGED <<pre, reg, padVars, layVars, bandVars>>

\* the selected rule runs on the node
Ran(rule, G) ==
    /\ rpc = "selected"
    /\ call.op = rule
    /\ g' = G
    /\ rpc' = "done"
    /\ UNCHANGED <<pre, call, reg, padVars, layVars, bandVars>>

ResizeV7 == Ran("Resize.version_7", Resize_version_7(g, "n"))
ResizeV9 == Ran("Resize.version_9", Resize_version_9(g, "n"))
ResizeV10 == Ran("Resize.version_10", Resize_version_10(g, "n"))
BatchNormV6 == Ran("BatchNorm.version_6", BatchNorm_version_6(g, "n"))
BatchNormV9 == Ran("BatchNorm.version_9", BatchNorm_version_9(g, "n"))
MatrixBandPartV7 == Ran("MatrixBandPart.version_7", MatrixBandPart_version_7(g, "n"))
SoftmaxV7 ==
    Ran("SoftmaxCrossEntropyWithLogits.version_7",
        SoftmaxCrossEntropyWithLogits_version_7(g, "n"))
SparseSoftmaxV7 ==
    Ran("SparseSoftmaxCrossEntropyWithLogits.version_7",
        SparseSoftmaxCrossEntropyWithLogits_version_7(g, "n"))
SparseSoftmaxV9 ==
    Ran("SparseSoftmaxCrossEntropyWithLogits.version_9",
        SparseSoftmaxCrossEntropyWithLogits_version_9(g, "n"))

\* a rule of another module runs: this file has no part in it
OtherRule ==
    /\ rpc = "selected"
    /\ g.nodes["n"].type = "Other"
    /\ rpc' = "done"
    /\ UNCHANGED <<g, pre, call, reg, padVars, layVars, bandVars>>

NextRewrite ==
    \/ Dispatch
    \/ ResizeV7 \/ ResizeV9 \/ ResizeV10
    \/ BatchNormV6 \/ BatchNormV9
    \/ MatrixBandPartV7
    \/ SoftmaxV7
    \/ SparseSoftmaxV7 \/ SparseSoftmaxV9
    \/ OtherRule

-----------------------------------------------------------------------------
(* Claims about dispatch and the rules that replace the node *)

\* the versions of the operator's rules that the target version allows
Allowed == {r \in reg : r <= pre.opset}

\* the nodes of the type in the graph after the rule
NodesOfType(type) == {m \in DOMAIN g.nodes : g.nodes[m].type = type}

\* C9: dispatch at target version v selects the rule with the highest required
\* version <= v and fails as unsupported when there is none (rules at
\* {1,6,9}: 7 selects 6, 9 selects 9, 0 fails).  For Resize, v = 8 runs
\* version_7 (Upsample with the scales as attribute), v = 9 version_9
\* (Upsample with a scales input), v >= 10 version_10 (Resize), v < 7 fails.
C9_VersionDispatch ==
    rpc # "start" =>
        /\ (Allowed = {} <=> rpc = "failed")
        /\ (Allowed = {} => g.err = "UnsupportedOperatorError")
        /\ (Allowed # {} => /\ call.version \in Allowed
                            /\ \A r \in Allowed : r <= call.version)
        /\ (reg = {1, 6, 9} => /\ (pre.opset = 7 => call.version = 6)
                               /\ (pre.opset = 9 => call.version = 9)
                               /\ (pre.opset = 0 => rpc = "failed"))
        /\ (pre.nodes["n"].type \in ResizeTypes =>
                /\ (pre.opset < 7 => rpc = "failed")
                /\ (pre.opset = 8 => call.op = "Resize.version_7")
                /\ (pre.opset = 9 => call.op = "Resize.version_9")
                /\ (pre.opset >= 10 => call.op = "Resize.version_10")
                /\ (rpc = "done" /\ g.err = "" =>
                        /\ (pre.opset = 8 =>
                                /\ g.nodes["n"].type = "Upsample"
                                /\ "scales" \in DOMAIN g.nodes["n"].attr
                                /\ Len(g.nodes["n"].input) = 1)
                        /\ (pre.opset = 9 =>
                                /\ NodesOfType("Resize") = {}
                                /\ \E m \in NodesOfType("Upsample") :
                                        Len(g.nodes[m].input) = 2)
                        /\ (pre.opset >= 10 =>
                                /\ NodesOfType("Upsample") = {}
                                /\ \E m \in NodesOfType("Resize") :
                                        Len(g.nodes[m].input) = 2)))

\* a Resize node converted at the highest target version by version_10
C9_Witness ==
    /\ rpc = "done" /\ g.err = ""
    /\ pre.nodes["n"].type \in ResizeTypes
    /\ pre.opset = MaxOpset
    /\ reg = {7, 9, 10}
    /\ call.version = 10
    /\ NodesOfType("Resize") # {}

\* the rules that remove the node and build its replacement
ReplacingRules ==
    {"Resize.version_9", "Resize.version_10", "MatrixBandPart.version_7",
     "SoftmaxCrossEntropyWithLogits.version_7",
     "SparseSoftmaxCrossEntropyWithLogits.version_7",
     "SparseSoftmaxCrossEntropyWithLogits.version_9"}

\* C10: after a rule that removes the node and builds replacement nodes has
\* completed, every output name the node declared is produced by exactly one
\* node, and no reader of them was edited.
C10_OutputNameIndirection ==
    (rpc = "done" /\ g.err = "" /\ call.op \in ReplacingRules) =>
        /\ \A o \in Range(pre.nodes["n"].output) :
                Cardinality({m \in DOMAIN g.nodes : o \in Range(g.nodes[m].output)}) = 1
        /\ \A m \in DOMAIN pre.nodes \ {"n"} :
                m \in DOMAIN g.nodes /\ g.nodes[m] = pre.nodes[m]

\* C13: Resize.version_7, the rule for target versions 7 and 8, ends with an
\* error whenever the input's height or width or either target size is
\* unknown, and writes no scales attribute then.
C13_ShapeRequiredAbort ==
    (rpc = "done" /\ call.op = "Resize.version_7"
        /\ Len(get_shape(pre, "x:0")) = 4 /\ "size" \in DOMAIN pre.value) =>
        ((\/ get_shape(pre, "x:0")[2] = UNKNOWN
          \/ get_shape(pre, "x:0")[3] = UNKNOWN
          \/ \E i \in 1..2 : pre.value["size"].data[i] = UNKNOWN) =>
            /\ g.err # ""
            /\ "scales" \notin DOMAIN g.nodes["n"].attr)

\* C16: a rule that calls remove_node on the original node never ends with
\* the dangling-consumer error: when it makes the call no node reads an
\* output of the original node, readers of the node or not.
C16_RemoveAfterRewire ==
    (rpc = "done" /\ call.op \in ReplacingRules) => g.err # "DanglingConsumerError"

\* the body graphs of the Loop nodes of the graph
LoopBodies == {g.nodes[m].attr["body"] : m \in NodesOfType("Loop")}

\* C18: in the Loop body MatrixBandPart.version_7 builds, every input name of
\* every body node is a declared body input (trip, cond, line) or the output
\* of a body node, and every declared body output (cond_out, line_out, res) is
\* produced by a body node.
C18_LoopBodyClosure ==
    (rpc = "done" /\ call.op = "MatrixBandPart.version_7") =>
        \A body \in LoopBodies :
            /\ body.inputs = <<"trip", "cond", "line">>
            /\ body.outputs = <<"cond_out", "line_out", "res">>
            /\ \A n \in DOMAIN body.nodes :
                    Range(body.nodes[n].input) \subseteq Range(body.inputs) \cup Produced(body)
            /\ Range(body.outputs) \subseteq Produced(body)

\* SparseSoftmaxCrossEntropyWithLogits.version_7 ran on rank-1 labels and
\* logits of a known shape
Sparse7Ran ==
    /\ rpc = "done" /\ call.op = "SparseSoftmaxCrossEntropyWithLogits.version_7"
    /\ Len(get_shape(pre, "labels:0")) = 1
    /\ get_shape(pre, "logits:0") # << >>

\* the class count: the last dimension of the logits' shape
ClassCount == get_shape(pre, "logits:0")[Len(get_shape(pre, "logits:0"))]

\* the nodes of the gather fallback, and the identity matrix of the dense path
GatherPath ==
    NodesOfType("Range") # {} /\ NodesOfType("GatherND") # {} /\ NodesOfType("Concat") # {}
DensePath == fresh(pre, "const_eye", 1) \in DOMAIN g.value

-----------------------------------------------------------------------------
(* Repeated conversion: the rule of the node's operator runs once, as the   *)
(* driver runs it, and conv_convert_inputs may then be called on the node   *)
(* a second time with the arguments of the first call.                      *)

InitRepeat ==
    /\ reg = {} /\ rpc = "off"
    /\ padNode = << >> /\ padPc = "off"
    /\ lshape = << >> /\ lnchw = << >> /\ lback = << >> /\ lpc = "off"
    /\ bIn = << >> /\ bPc = "off" /\ bLoop = << >> /\ bOut = << >>
    /\ \/ \E type \in ConvTypes \cup {"FusedBatchNorm"}, fmt \in {"NHWC", "NCHW"},
             x \in {"Const", "Placeholder"}, xshape \in BOOLEAN, xsib \in 0..MaxSib,
             w \in {"Const", "Identity"}, wshape \in BOOLEAN, wsib \in 0..MaxSib,
             read \in SUBSET (1..3), oshape \in BOOLEAN,
             mean_full \in BOOLEAN, var_full \in BOOLEAN, opset \in {4, 9} :
               LET p == [type |-> type, fmt |-> fmt, x |-> x, xshape |-> xshape,
                         xsib |-> xsib, w |-> w, wshape |-> wshape, wsib |-> wsib,
                         read |-> read, oshape |-> oshape, mean_full |-> mean_full,
                         var_full |-> var_full, opset |-> opset]
               IN  ValidParams(p) /\ g = ConvGraph(p)
       \/ \E type \in ResizeTypes, a \in 1..Len(ResizeShapes), b \in 1..Len(ResizeSizes),
             c \in 1..Len(ResizeOutShapes), read \in SUBSET {1}, opset \in {7, 8} :
               g = RewriteGraph(type, a, b, c, read, opset)
    /\ pre = g
    /\ call = [op |-> "", with_kernel |-> FALSE, new_kernel_shape |-> << >>,
               input_indices |-> << >>, output_indices |-> << >>]

\* Resize.version_7 rewrites the node; it ends in conv_convert_inputs
ResizeRewrite ==
    /\ call.op = ""
    /\ g.nodes["n"].type \in ResizeTypes
    /\ g' = Resize_version_7(g, "n")
    /\ call' = [op |-> "Resize.version_7", with_kernel |-> FALSE,
                new_kernel_shape |-> << >>, input_indices |-> <<0>>,
                output_indices |-> <<0>>]
    /\ pre' = g
    /\ UNCHANGED <<padVars, layVars, bandVars, dispVars>>

\* conv_convert_inputs is called on the converted node a second time
ConvertAgain ==
    /\ call.op \in {"conv_convert_inputs", "BatchNorm.version_6", "Resize.version_7"}
    /\ g.err = ""
    /\ g' = conv_convert_inputs(g, "n", call.with_kernel, call.new_kernel_shape,
                                call.input_indices, call.output_indices)
    /\ call' = [call EXCEPT !.op = "conv_convert_inputs again"]
    /\ pre' = g
    /\ UNCHANGED <<padVars, layVars, bandVars, dispVars>>

NextRepeat == ConvConvertInputs \/ BatchNormRewrite \/ ResizeRewrite \/ ConvertAgain

(* Claims about the layout marker and repeated conversion *)

\* the node's marker became channel-first in the rule that just ran
BecameNCHW ==
    /\ call.op \in {"conv_convert_inputs", "BatchNorm.version_6", "Resize.version_7"}
    /\ pre.nodes["n"].data_format # "NCHW"
    /\ g.nodes["n"].data_format = "NCHW"

C15_RepeatIsNoOp ==
    call.op = "conv_convert_inputs again" =>
        /\ g.err = ""
        /\ g.nodes = pre.nodes
        /\ g.value = pre.value
        /\ g.shape = pre.shape

-----------------------------------------------------------------------------
(* MatrixBandPart.version_7 from the rule to the value: the rule checks the *)
(* node and builds the nodes, then the nodes are evaluated as in the band   *)
(* section.                                                                 *)

\* the bands drawn: the two the rule accepts and three others
BandsDrawn == {<<-1, 0>>, <<0, -1>>, <<0, 0>>, <<-1, -1>>, <<1, -1>>}

\* the inputs drawn with a rank other than 2: the tensor and its shape
OtherRankInputs == {<<<<1, 0>>, <<2>>>>, <<<<<<<<1, 2>>>>>>, <<1, 1, 2>>>>}

\* the graph of the MatrixBandPart node for an input shape and a band
BandGraph(shape, band) ==
    NodeGraph("MatrixBandPart",
              <<Input("x", "Placeholder", shape, "float", << >>),
                Input("lower", "Const", << >>, "int64", band[1]),
                Input("upper", "Const", << >>, "int64", band[2])>>,
              shape, {}, CHOOSE v \in MatrixBandPartVersions : TRUE)

InitBandRule ==
    /\ reg = {} /\ rpc = "off"
    /\ padNode = << >> /\ padPc = "off"
    /\ lshape = << >> /\ lnchw = << >> /\ lback = << >> /\ lpc = "off"
    /\ bPc = "rule"
    /\ \E band \in BandsDrawn :
         \/ \E R \in 1..MaxMat, C \in 1..MaxMat :
              \E col \in [1..R -> {0, 2}], seed \in 0..2 :
                 /\ bIn = [input |-> BandMatrix(R, C, col, seed), bandpart |-> band]
                 /\ g = BandGraph(<<R, C>>, band)
         \/ \E in \in OtherRankInputs :
                 /\ bIn = [input |-> in[1], bandpart |-> band]
                 /\ g = BandGraph(in[2], band)
    /\ bLoop = << >>
    /\ bOut = << >>
    /\ pre = g
    /\ call = [op |-> "", version |-> 0]

\* the rule runs on the node: it raises, or it builds the nodes, which are
\* evaluated from then on
BandRule ==
    /\ bPc = "rule"
    /\ g' = MatrixBandPart_version_7(g, "n")
    /\ bPc' = IF MatrixBandPart_version_7(g, "n").err = "" THEN "init"
              ELSE MatrixBandPart_version_7(g, "n").err
    /\ call' = [op |-> "MatrixBandPart.version_7", version |-> 7]
    /\ pre' = g
    /\ UNCHANGED <<bIn, bLoop, bOut, padVars, layVars, dispVars>>

NextBandRule == BandRule \/ BandLoopStart \/ BandLoopBody \/ BandLoopEnd

(* Claims about the upper band *)

\* the rule raised and created no node
BandAborted ==
    /\ bPc \in {"ValueError", "TypeError"}
    /\ g.err = bPc
    /\ g.nodes = pre.nodes
    /\ bLoop = << >> /\ bOut = << >>

\* for the band (0, -1) on a rank-2 input: the nodes the rule built, and what
\* they yield
UpperBandBuilt ==
    /\ bPc \in {"init", "loop", "done"}
    /\ g.err = ""
    /\ \E m \in NodesOfType("Gather") :
            g.nodes[m].input[1] = "x:0" /\ g.nodes[m].attr = ("axis" :> 0)
    /\ NodesOfType("Xor") # {} /\ NodesOfType("Not") # {}
    /\ Cardinality(NodesOfType("Loop")) = 1
    /\ \E m \in NodesOfType("Squeeze") : g.nodes[m].attr = ("axes" :> <<1>>)
    /\ NodesOfType("Transpose") = {}
    /\ g.nodes["n"].type = "Mul"
    /\ g.nodes["n"].output = pre.nodes["n"].output
    /\ "x:0" \in Range(g.nodes["n"].input)
    /\ bPc \in {"loop", "done"} =>
            /\ bLoop.trip_cnt = Len(bIn.input)
            /\ bLoop.trip = 0 =>
                  bLoop.line = <<[j \in 1..Len(bIn.input[1]) |-> TRUE]>>
    /\ bPc = "done" =>
            /\ Shape2(bOut) = Shape2(bIn.input)
            /\ \A i \in 1..Len(bIn.input) : \A j \in 1..Len(bIn.input[i]) :
                  bOut[i][j] = IF j >= i THEN bIn.input[i][j] ELSE 0

-----------------------------------------------------------------------------
(* Specifications *)

SpecPad == InitPad /\ [][AddPadding]_vars

SpecLayout == InitLayout /\ [][NextLayout]_vars

SpecBand == InitBand /\ [][NextBand]_vars

SpecBandRule == InitBandRule /\ [][NextBandRule]_vars

SpecConv == InitConv /\ [][NextConv]_vars

SpecRepeat == InitRepeat /\ [][NextRepeat]_vars

SpecRewrite == InitRewrite /\ [][NextRewrite]_vars

====
